---- MODULE Spec2Model ----
(***************************************************************************)
(* Model of RunInstance (src/runinstance.js) and Branch                    *)
(* (src/unnamed/part_000): the per-thread execution state machine of the   *)
(* test engine.  run() and the debugger operations are split into atomic   *)
(* segments at their suspension points (awaited hook, awaited code block,  *)
(* awaited runStep/runAfterEveryBranch), where stop() may interleave.      *)
(***************************************************************************)
EXTENDS Integers, Sequences, FiniteSets, TLC

\* ------------------------------------------------------------------------
\* Bounds
\* ------------------------------------------------------------------------
\* Number of operations (run, runOneStep, skipOneStep, runLastStep,
\* injectStep) started on the instance.
MaxOps == 3
\* Number of injectStep() calls explored.
MaxInject == 1

\* ------------------------------------------------------------------------
\* Values
\* ------------------------------------------------------------------------
Null == <<0, 0>>            \* null / undefined reference or value
Seed == <<0, 1>>            \* the value runner.globalInit gives to {gv}
Nil  == <<0, 2>>            \* content of an undefined frame

NoError == "none"

EmptyFrame == [lv |-> Null, par |-> Null]           \* {}
UndefinedFrame == [lv |-> Nil, par |-> Nil]         \* undefined (result of [].pop())
globalInit == [gv |-> Seed]

\* ------------------------------------------------------------------------
\* Steps and branches handed to the engine (inputs)
\* ------------------------------------------------------------------------
\* dbg: "none" | "before" (isBeforeDebug) | "after" (isAfterDebug)
\* sets: "none" | "local" | "global"  (varsBeingSet has one entry)
\* par: "none" | "ok" | "bad"  (function declaration has a parameter; "bad":
\*      the argument is a variable that is never set, so binding throws)
Stp(indent, fc, cb, dbg, ef, sets, par) ==
    [branchIndents |-> indent, isFunctionCall |-> fc, hasCodeBlock |-> cb,
     isBeforeDebug |-> (dbg = "before"), isAfterDebug |-> (dbg = "after"),
     isExpectedFail |-> ef, sets |-> sets, par |-> par]

Plain(indent)      == Stp(indent, FALSE, FALSE, "none", FALSE, "none", "none")
PlainDbg(indent, d) == Stp(indent, FALSE, FALSE, d, FALSE, "none", "none")
Assign(indent, ns) == Stp(indent, FALSE, FALSE, "none", FALSE, ns, "none")
AssignDbg(indent, ns, d) == Stp(indent, FALSE, FALSE, d, FALSE, ns, "none")
TextCb(indent)     == Stp(indent, FALSE, TRUE, "none", FALSE, "none", "none")
TextCbSet(indent, ns) == Stp(indent, FALSE, TRUE, "none", FALSE, ns, "none")
TextCbEf(indent)   == Stp(indent, FALSE, TRUE, "none", TRUE, "none", "none")
Fn(indent, par)    == Stp(indent, TRUE, FALSE, "none", FALSE, "none", par)
FnCb(indent, par)  == Stp(indent, TRUE, TRUE, "none", FALSE, "none", par)

\* Hook lists are given by their lengths.
Hooks(beb, aeb, bes, aes) ==
    [beforeEveryBranch |-> beb, afterEveryBranch |-> aeb,
     beforeEveryStep |-> bes, afterEveryStep |-> aes]

Br(steps, h) ==
    [steps |-> steps, synthesized |-> FALSE,
     beforeEveryBranch |-> h.beforeEveryBranch, afterEveryBranch |-> h.afterEveryBranch,
     beforeEveryStep |-> h.beforeEveryStep, afterEveryStep |-> h.afterEveryStep]

HookConfigs == { Hooks(0, 0, 0, 0), Hooks(2, 1, 2, 1), Hooks(0, 2, 0, 2) }

\* The step sequences of the trees explored (each inner sequence is a branch).
TreeShapes ==
    { << << TextCb(0), Fn(0, "ok"), FnCb(1, "ok"), Plain(0) >> >>,
      << << Fn(0, "ok"), PlainDbg(1, "after"), Plain(0) >> >>,
      << << FnCb(0, "ok"), Assign(0, "local"), PlainDbg(0, "before") >> >>,
      << << TextCbEf(0), TextCbSet(0, "global") >> >>,
      << << FnCb(0, "none"), Plain(1), PlainDbg(0, "after") >> >>,
      << << TextCb(0), Fn(0, "bad") >>, << Plain(0), TextCb(0) >> >>,
      << << Fn(0, "ok"), Plain(1) >>, << TextCb(0) >> >> }

MkTree(shape, h) == [b \in 1..Len(shape) |-> Br(shape[b], h)]

\* Branches tree.branchify() may synthesize for an injected step.
InjectShapes ==
    { << AssignDbg(0, "local", "before") >>,
      << Fn(0, "ok"), TextCb(1) >>,
      << Fn(0, "bad"), Plain(1) >> }

MkInjected(shape) ==
    [steps |-> shape, synthesized |-> TRUE,
     beforeEveryBranch |-> 0, afterEveryBranch |-> 0,
     beforeEveryStep |-> 0, afterEveryStep |-> 0]

\* Result fields of a step before it has run.
\* hookFailed is a history field: a beforeEveryStep/afterEveryStep hook
\* failed for the step during its latest runStep.
FreshStep ==
    [isPassed |-> FALSE, isFailed |-> FALSE, isSkipped |-> FALSE,
     asExpected |-> "undefined", error |-> NoError, isRunning |-> FALSE,
     hookFailed |-> FALSE]

\* bebFailed and aebFailed are history fields: the index of the
\* beforeEveryBranch hook that failed for the branch, and of the last
\* afterEveryBranch hook that did (0 if none)
FreshBranch ==
    [isPassed |-> FALSE, isFailed |-> FALSE, isSkipped |-> FALSE,
     isRunning |-> FALSE, passedLastTime |-> FALSE, error |-> NoError,
     bebFailed |-> 0, aebFailed |-> 0]

\* ------------------------------------------------------------------------
\* RunInstance.replaceVars and RunInstance.findVarValue
\* ------------------------------------------------------------------------
\* A text is a sequence of tokens: literal characters, escape sequences and
\* variable references ({name} or {{name}}, as matched by Constants.VAR).
Lit(c) == << "lit", c >>
Esc(c) == << "esc", c >>
Ref(name, isLocal) == << "var", name, isLocal >>
IsRef(tok) == tok[1] = "var"

\* Values a variable can hold.  text is String(value), what
\* String.prototype.replace inserts for the value.
Undefined == [type |-> "undefined", text |-> << Lit("undefined") >>]
Absent == [type |-> "absent", text |-> << >>]       \* no such own property
Str(t) == [type |-> "string", text |-> t]
Num(n) == [type |-> "number", text |-> << Lit(n) >>]
Bool(b) == [type |-> "boolean", text |-> << Lit(b) >>]
Obj == [type |-> "object", text |-> << Lit("[object Object]") >>]

\* if(value): JavaScript truthiness
truthy(v) ==
    /\ v.type \notin {"undefined", "absent"}
    /\ v # Str(<< >>)
    /\ v # Num("0")
    /\ v # Bool("false")

isScalar(v) == v.type \in {"string", "boolean", "number"}

\* utils.canonicalize: trims, collapses whitespace and folds case
canonicalize(name) == IF name = "A" THEN "a" ELSE name

RawNames == {"a", "A", "b"}
CanonNames == { canonicalize(n) : n \in RawNames }

\* utils.stripBrackets
stripBrackets(match) == match[2]

\* utils.stripQuotes: a literal is given as its quote and its content
Quoted(content) == [quote |-> "'", content |-> content]
stripQuotes(lit) == lit.content

\* utils.unescape: an escape sequence becomes the character it stands for
unescaped(c) == IF c = "n" THEN "\n" ELSE c
unescape(t) == [k \in 1..Len(t) |-> IF t[k][1] = "esc" THEN Lit(unescaped(t[k][2])) ELSE t[k]]

\* getGlobal(varname), getLocal(varname) on the variable maps env
getGlobalVar(env, varname) == env.global[canonicalize(varname)]

getLocalVar(env, varname) ==
    IF env.localsPassedIntoFunc[canonicalize(varname)] # Absent
    THEN env.localsPassedIntoFunc[canonicalize(varname)]
    ELSE env.local[canonicalize(varname)]

\* Steps of the branch findVarValue scans: varsBeingSet is a sequence of
\* [name, isLocal, value]; ret is what the step's code block returns
VStep(indent, sets, cb, ret) ==
    [branchIndents |-> indent, varsBeingSet |-> sets, hasCodeBlock |-> cb, ret |-> ret]
VarSet(name, isLocal, content) == [name |-> name, isLocal |-> isLocal, value |-> Quoted(content)]

\* what a call returns or throws; setter is the step whose varsBeingSet
\* entry the value was taken from (0: none)
Returned(v, s) == [err |-> "none", value |-> v, setter |-> s]
Thrown(e, s) == [err |-> e, value |-> Undefined, setter |-> s]

\* String.prototype.replace(match, value): the first occurrence only
RECURSIVE indexOf(_, _, _)
indexOf(t, tok, k) ==
    IF k > Len(t) THEN 0
    ELSE IF t[k] = tok THEN k
    ELSE indexOf(t, tok, k + 1)

replace(t, match, valueText) ==
    LET k == indexOf(t, match, 1)
    IN  IF k = 0 THEN t
        ELSE SubSeq(t, 1, k - 1) \o valueText \o SubSeq(t, k + 1, Len(t))

\* lines 806-839: the step and varsBeingSet entry the scan stops at
\* (<< 0, 0 >>: not found)
RECURSIVE entryOf(_, _, _, _)
entryOf(sets, j, varname, isLocal) ==
    IF j > Len(sets) THEN 0
    ELSE IF canonicalize(sets[j].name) = canonicalize(varname) /\ sets[j].isLocal = isLocal
    THEN j
    ELSE entryOf(sets, j + 1, varname, isLocal)

\* scanForSetter, looking for a local beyond the end of the scope
RECURSIVE scanForSetter_CrossesScopeExit(_, _, _, _, _)
scanForSetter_CrossesScopeExit(branch, at, i, varname, isLocal) ==
    IF i > Len(branch) THEN << 0, 0 >>
    ELSE IF entryOf(branch[i].varsBeingSet, 1, varname, isLocal) # 0
    THEN << i, entryOf(branch[i].varsBeingSet, 1, varname, isLocal) >>
    ELSE scanForSetter_CrossesScopeExit(branch, at, i + 1, varname, isLocal)

RECURSIVE scanForSetter(_, _, _, _, _)
scanForSetter(branch, at, i, varname, isLocal) ==
    IF i > Len(branch) THEN << 0, 0 >>
    ELSE IF isLocal /\ branch[i].branchIndents < branch[at].branchIndents THEN << 0, 0 >>
    ELSE IF entryOf(branch[i].varsBeingSet, 1, varname, isLocal) # 0
    THEN << i, entryOf(branch[i].varsBeingSet, 1, varname, isLocal) >>
    ELSE scanForSetter(branch, at, i + 1, varname, isLocal)

\* Depth of the JavaScript call stack; a call beyond it throws RangeError
\* (Maximum call stack size exceeded)
StackLimit == 8

RECURSIVE replaceVars(_, _, _, _, _)
RECURSIVE findVarValue(_, _, _, _, _, _)
RECURSIVE replaceMatches(_, _, _, _, _, _, _)

\* replaceMatches, re-throwing every error of findVarValue as it is
replaceMatches_RethrowsAll(env, branch, at, text, matches, i, depth) ==
    IF i > Len(matches) THEN Returned(Str(text), 0)
    ELSE LET match == matches[i]
             found == findVarValue(env, branch, at, stripBrackets(match), match[3], depth + 1)
         IN  IF found.err # "none" THEN found
             ELSE IF ~isScalar(found.value) THEN Thrown("VarTypeError", found.setter)
             ELSE replaceMatches(env, branch, at, replace(text, match, found.value.text),
                                 matches, i + 1, depth)

\* lines 740-763: the loop over the matches
replaceMatches(env, branch, at, text, matches, i, depth) ==
    IF i > Len(matches) THEN Returned(Str(text), 0)
    ELSE LET match == matches[i]
             found == findVarValue(env, branch, at, stripBrackets(match), match[3], depth + 1)
         IN  IF found.err = "RangeError" THEN Thrown("InfiniteVarLoop", found.setter)
             ELSE IF found.err # "none" THEN found
             ELSE IF ~isScalar(found.value) THEN Thrown("VarTypeError", found.setter)
             ELSE replaceMatches(env, branch, at, replace(text, match, found.value.text),
                                 matches, i + 1, depth)

\* lines 737-767: replaceVars(text, step, branch); text is a value, since
\* findVarValue passes numbers and booleans too
replaceVars(env, branch, at, text, depth) ==
    IF depth > StackLimit THEN Thrown("RangeError", 0)
    ELSE IF text.type # "string" THEN Thrown("TypeError", 0)
    ELSE replaceMatches(env, branch, at, text.text, SelectSeq(text.text, IsRef), 1, depth)

\* findVarValue, returning the value a later step sets without resolving the
\* references in it
findVarValue_ReturnsRawValue(env, branch, at, varname, isLocal, depth) ==
    IF depth > StackLimit THEN Thrown("RangeError", 0)
    ELSE LET value == IF isLocal THEN getLocalVar(env, varname) ELSE getGlobalVar(env, varname)
             hit == scanForSetter(branch, at, at, varname, isLocal)
             s == hit[1]
             raw == IF branch[s].hasCodeBlock THEN branch[s].ret
                    ELSE Str(unescape(stripQuotes(branch[s].varsBeingSet[hit[2]].value)))
         IN  IF truthy(value) THEN Returned(value, 0)
             ELSE IF s = 0 THEN Thrown("VarNotSet", 0)
             ELSE Returned(raw, s)

\* lines 777-843: findVarValue(varname, isLocal, step, branch)
findVarValue(env, branch, at, varname, isLocal, depth) ==
    IF depth > StackLimit THEN Thrown("RangeError", 0)
    ELSE LET value == IF isLocal THEN getLocalVar(env, varname) ELSE getGlobalVar(env, varname)
             hit == scanForSetter(branch, at, at, varname, isLocal)
             s == hit[1]
             raw == IF branch[s].hasCodeBlock THEN branch[s].ret
                    ELSE Str(unescape(stripQuotes(branch[s].varsBeingSet[hit[2]].value)))
             replaced == replaceVars(env, branch, at, raw, depth + 1)
         IN  IF truthy(value) THEN Returned(value, 0)
             ELSE IF s = 0 THEN Thrown("VarNotSet", 0)
             ELSE IF isScalar(raw)
             THEN (IF replaced.err # "none" THEN Thrown(replaced.err, s)
                   ELSE Returned(replaced.value, s))
             ELSE Returned(raw, s)

\* ------------------------------------------------------------------------
\* Inputs of replaceVars / findVarValue
\* ------------------------------------------------------------------------
\* Length of the branch findVarValue scans
MaxVarSteps == 3

VarStepKinds ==
    { VStep(0, << >>, FALSE, Undefined),
      VStep(1, << >>, FALSE, Undefined),
      VStep(1, << VarSet("a", TRUE, << Lit("v") >>) >>, FALSE, Undefined),
      VStep(0, << VarSet("A", FALSE, << Lit("w"), Esc("n") >>) >>, FALSE, Undefined),
      VStep(0, << VarSet("a", TRUE, << Ref("b", FALSE) >>) >>, FALSE, Undefined),
      VStep(1, << VarSet("b", FALSE, << Ref("a", TRUE) >>) >>, FALSE, Undefined),
      VStep(0, << VarSet("b", FALSE, << >>) >>, TRUE, Num("5")) }

VarBranches == UNION { [1..n -> VarStepKinds] : n \in 1..MaxVarSteps }

\* the variable maps: global {a}, global {b}, local {{a}}, passed-in {{a}}
MkEnv(ga, gb, la, pa) ==
    [global |-> [n \in CanonNames |-> IF n = "a" THEN ga ELSE gb],
     local |-> [n \in CanonNames |-> IF n = "a" THEN la ELSE Undefined],
     localsPassedIntoFunc |-> [n \in CanonNames |-> IF n = "a" THEN pa ELSE Absent]]

VarEnvs ==
    { MkEnv(Undefined, Undefined, Undefined, Absent),
      MkEnv(Str(<< Lit("g") >>), Undefined, Undefined, Absent),
      MkEnv(Str(<< >>), Undefined, Undefined, Absent),
      MkEnv(Num("0"), Undefined, Undefined, Absent),
      MkEnv(Str(<< Ref("b", FALSE) >>), Str(<< Lit("h") >>), Undefined, Absent),
      MkEnv(Str(<< Ref("b", FALSE) >>), Undefined, Undefined, Absent),
      MkEnv(Undefined, Str(<< Lit("h") >>), Undefined, Absent),
      MkEnv(Undefined, Undefined, Str(<< Lit("l") >>), Absent),
      MkEnv(Undefined, Undefined, Bool("false"), Absent),
      MkEnv(Undefined, Undefined, Str(<< Lit("l") >>), Str(<< Lit("p") >>)),
      MkEnv(Undefined, Undefined, Str(<< Lit("l") >>), Str(<< >>)) }

VarTexts ==
    { << Lit("x") >>,
      << Ref("a", FALSE) >>,
      << Ref("a", TRUE), Lit("-"), Ref("b", FALSE) >>,
      << Ref("A", FALSE), Ref("a", FALSE) >> }

NoQuery == [env |-> MkEnv(Undefined, Undefined, Undefined, Absent), branch |-> << >>, at |-> 0]
NoAnswer == [pc |-> "start", varname |-> "", isLocal |-> FALSE, text |-> << >>,
             first |-> Thrown("none", 0), out |-> Thrown("none", 0)]

VARIABLES
    branches,               \* runner.tree branches, followed by the branches synthesized by injectStep
    pauseOnFail,            \* runner.pauseOnFail
    bstate,                 \* result fields of each branch
    sstate,                 \* result fields of each step of each branch
    currBranch,             \* this.currBranch (index into branches, 0 = null)
    currStep,               \* this.currStep (<<branch, index>>, Null = null)
    isPaused,
    isStopped,
    persistent,
    global,
    local,
    localStack,
    localsPassedIntoFunc,
    stepsRan,               \* this.stepsRan.steps
    op,                     \* the operation in progress ("idle" when none)
    pc,                     \* suspension point the operation is waiting at
    wasPaused,              \* run(): local wasPaused
    overrideDebug,          \* run(): local overrideDebug
    rsStep,                 \* runStep(): parameter step
    rsOverride,             \* runStep(): parameter overrideDebug
    hookIdx,                \* index of the hook being awaited
    ret,                    \* what the last finished operation returned
    execLog,                \* history: every step and hook whose execution began, in order
    ranInfo,                \* history: per entry of stepsRan, localStack depths and scope snapshot
    stopAt,                 \* history: where the engine was when stop() was called
    branchStart,            \* history: variable state right after run() reset it for a branch
    opsStarted,             \* history: number of operations started so far
    opStart,                \* history: the state in which the latest operation was called
    vq,                     \* replaceVars/findVarValue: the variable maps, branch and step of the call
    vres                    \* replaceVars/findVarValue: the call made and what it returned or threw

vars == << branches, pauseOnFail, bstate, sstate, currBranch, currStep, isPaused,
           isStopped, persistent, global, local, localStack, localsPassedIntoFunc,
           stepsRan, op, pc, wasPaused, overrideDebug, rsStep, rsOverride, hookIdx,
           ret, execLog, ranInfo, stopAt, branchStart, opsStarted, opStart,
           vq, vres >>

\* The whole state as one record, so that the sequential code of a handler
\* can be written as a composition of state transformers.
Cur ==
    [branches |-> branches, pauseOnFail |-> pauseOnFail, bstate |-> bstate,
     sstate |-> sstate, currBranch |-> currBranch, currStep |-> currStep,
     isPaused |-> isPaused, isStopped |-> isStopped, persistent |-> persistent,
     global |-> global, local |-> local, localStack |-> localStack,
     localsPassedIntoFunc |-> localsPassedIntoFunc, stepsRan |-> stepsRan,
     op |-> op, pc |-> pc, wasPaused |-> wasPaused, overrideDebug |-> overrideDebug,
     rsStep |-> rsStep, rsOverride |-> rsOverride, hookIdx |-> hookIdx, ret |-> ret,
     execLog |-> execLog, ranInfo |-> ranInfo, stopAt |-> stopAt,
     branchStart |-> branchStart, opsStarted |-> opsStarted, opStart |-> opStart]

Becomes(r) ==
    /\ branches' = r.branches
    /\ pauseOnFail' = r.pauseOnFail
    /\ bstate' = r.bstate
    /\ sstate' = r.sstate
    /\ currBranch' = r.currBranch
    /\ currStep' = r.currStep
    /\ isPaused' = r.isPaused
    /\ isStopped' = r.isStopped
    /\ persistent' = r.persistent
    /\ global' = r.global
    /\ local' = r.local
    /\ localStack' = r.localStack
    /\ localsPassedIntoFunc' = r.localsPassedIntoFunc
    /\ stepsRan' = r.stepsRan
    /\ op' = r.op
    /\ pc' = r.pc
    /\ wasPaused' = r.wasPaused
    /\ overrideDebug' = r.overrideDebug
    /\ rsStep' = r.rsStep
    /\ rsOverride' = r.rsOverride
    /\ hookIdx' = r.hookIdx
    /\ ret' = r.ret
    /\ execLog' = r.execLog
    /\ ranInfo' = r.ranInfo
    /\ stopAt' = r.stopAt
    /\ branchStart' = r.branchStart
    /\ opsStarted' = r.opsStarted
    /\ opStart' = r.opStart
    /\ UNCHANGED << vq, vres >>

NoBranchStart == [b |-> 0, global |-> globalInit, local |-> EmptyFrame, depth |-> 0,
                  readableLocal |-> EmptyFrame, persistent |-> Null,
                  persistentBefore |-> Null]

\* history record of an operation's call: its name, the lengths of stepsRan
\* and execLog, the flags, the cursor, what getNextReadyStep() would return,
\* and the variable state
NoOpStart ==
    [name |-> "none", prevName |-> "none", prevLen |-> 0, prevRet |-> "none",
     len |-> 0, logLen |-> 0, paused |-> FALSE, stopped |-> FALSE,
     branch |-> 0, currStep |-> Null, next |-> Null, complete |-> FALSE,
     sstate |-> << >>,
     variables |-> << Null, [gv |-> Null], EmptyFrame, << >>, EmptyFrame >>]

Init ==
    /\ \E shape \in TreeShapes, h \in HookConfigs : branches = MkTree(shape, h)
    /\ pauseOnFail \in BOOLEAN
    /\ bstate = [b \in 1..Len(branches) |-> FreshBranch]
    /\ sstate = [b \in 1..Len(branches) |-> [i \in 1..Len(branches[b].steps) |-> FreshStep]]
    /\ currBranch = 0
    /\ currStep = Null
    /\ isPaused = FALSE
    /\ isStopped = FALSE
    /\ persistent = Null
    /\ global = [gv |-> Null]
    /\ local = EmptyFrame
    /\ localStack = << >>
    /\ localsPassedIntoFunc = EmptyFrame
    /\ stepsRan = << >>
    /\ op = "idle"
    /\ pc = "idle"
    /\ wasPaused = FALSE
    /\ overrideDebug = FALSE
    /\ rsStep = Null
    /\ rsOverride = FALSE
    /\ hookIdx = 0
    /\ ret = "none"
    /\ execLog = << >>
    /\ ranInfo = << >>
    /\ stopAt = << "none", Null, 0 >>
    /\ branchStart = NoBranchStart
    /\ opsStarted = 0
    /\ opStart = NoOpStart
    /\ vq = NoQuery
    /\ vres = NoAnswer


\* ------------------------------------------------------------------------
\* Step, Branch and Tree
\* ------------------------------------------------------------------------
StepOf(r, ref) == r.branches[ref[1]].steps[ref[2]]
SS(r, ref) == r.sstate[ref[1]][ref[2]]

\* Step.isComplete()
stepIsComplete(r, ref) ==
    SS(r, ref).isPassed \/ SS(r, ref).isFailed \/ SS(r, ref).isSkipped

\* Branch.isComplete()
isComplete(r, b) ==
    \/ r.bstate[b].isPassed
    \/ r.bstate[b].isFailed
    \/ r.bstate[b].isSkipped
    \/ r.bstate[b].passedLastTime

\* Branch.isCompleteOrRunning()
isCompleteOrRunning(r, b) == r.bstate[b].isRunning \/ isComplete(r, b)

\* branchStop, leaving the running marks in place
branchStop_KeepsRunning(r, b) == r

\* Branch.stop(): marks all steps not running
branchStop(r, b) ==
    [r EXCEPT !.sstate[b] = [i \in 1..Len(r.branches[b].steps) |->
                                [r.sstate[b][i] EXCEPT !.isRunning = FALSE]]]

\* Branch.markBranch(isPassed, error)
markBranch(r, b, passed, error) ==
    [r EXCEPT !.bstate[b] =
        [@ EXCEPT !.isPassed = passed, !.isFailed = ~passed,
                  !.isRunning = FALSE, !.isSkipped = FALSE,
                  !.error = IF error # NoError THEN error ELSE @]]

\* Branch.finishOffBranch()
finishOffBranch(r, b) ==
    LET badStepExists == \E i \in 1..Len(r.branches[b].steps) :
                             r.sstate[b][i].asExpected = "false"
    IN  markBranch(r, b, ~badStepExists, NoError)

\* Tree.markStep(step, branch, isPassed, asExpected, error, finishBranchNow, _)
\* b = 0 stands for a null branch.
markStep(r, ref, b, passed, asExpected, error, finishBranchNow) ==
    LET r1 == [r EXCEPT !.sstate[ref[1]][ref[2]] =
                  [@ EXCEPT !.isPassed = passed, !.isFailed = ~passed,
                            !.isSkipped = FALSE,
                            !.asExpected = IF asExpected THEN "true" ELSE "false",
                            !.error = IF error # NoError THEN error ELSE @]]
    IN  IF b # 0 /\ (finishBranchNow \/ ref[2] = Len(r.branches[b].steps))
        THEN finishOffBranch(r1, b)
        ELSE r1

\* Tree.markStepSkipped(step, branch)
markStepSkipped(r, ref, b) ==
    LET r1 == [r EXCEPT !.sstate[ref[1]][ref[2]].isSkipped = TRUE]
    IN  IF b # 0 /\ ref[2] = Len(r.branches[b].steps)
        THEN finishOffBranch(r1, b)
        ELSE r1

\* Index of the step of branch b marked as running (0 if none)
runningStep(r, b) ==
    IF \E i \in 1..Len(r.branches[b].steps) : r.sstate[b][i].isRunning
    THEN CHOOSE i \in 1..Len(r.branches[b].steps) :
            /\ r.sstate[b][i].isRunning
            /\ \A j \in 1..(i - 1) : ~r.sstate[b][j].isRunning
    ELSE 0

\* Tree.nextStep(branch, advance, _): the step it returns
nextStep(r, b) ==
    LET run == runningStep(r, b)
        n == Len(r.branches[b].steps)
    IN  IF isComplete(r, b) THEN Null
        ELSE IF run = 0 THEN (IF n >= 1 THEN << b, 1 >> ELSE Null)
        ELSE IF run < n THEN << b, run + 1 >>
        ELSE Null

\* Tree.nextStep(branch, true, _): the state it leaves
nextStepAdvance(r, b) ==
    LET nxt == nextStep(r, b)
        r1 == branchStop(r, b)
    IN  IF isComplete(r, b) THEN r1
        ELSE IF nxt = Null THEN finishOffBranch(r1, b)
        ELSE [r1 EXCEPT !.sstate[b][nxt[2]].isRunning = TRUE]

\* Tree.nextBranch(): index of the branch it returns (0 = null)
nextBranch(r) ==
    LET cand == { b \in 1..Len(r.branches) :
                     ~r.branches[b].synthesized /\ ~isCompleteOrRunning(r, b) }
    IN  IF cand = {} THEN 0 ELSE CHOOSE b \in cand : \A c \in cand : b <= c

\* this.currBranch = this.tree.nextBranch()
takeNextBranch(r) ==
    LET b == nextBranch(r)
    IN  IF b = 0 THEN [r EXCEPT !.currBranch = 0]
        ELSE [r EXCEPT !.currBranch = b, !.bstate[b].isRunning = TRUE]

\* Number of branches of runner.tree
treeSize(r) == Cardinality({ b \in 1..Len(r.branches) : ~r.branches[b].synthesized })

\* ------------------------------------------------------------------------
\* RunInstance: variables
\* ------------------------------------------------------------------------
\* getLocal(): localsPassedIntoFunc first, then local (per variable name)
getLocal(r) ==
    [lv |-> IF r.localsPassedIntoFunc.lv # Null THEN r.localsPassedIntoFunc.lv
            ELSE IF r.local = UndefinedFrame THEN Null ELSE r.local.lv,
     par |-> IF r.localsPassedIntoFunc.par # Null THEN r.localsPassedIntoFunc.par
             ELSE IF r.local = UndefinedFrame THEN Null ELSE r.local.par]

setPersistent(r, v) == [r EXCEPT !.persistent = v]
setGlobal(r, v) == [r EXCEPT !.global.gv = v]
\* setLocal throws a TypeError when this.local is undefined; callers test canSetLocal
canSetLocal(r) == r.local # UndefinedFrame
setLocal(r, v) == [r EXCEPT !.local.lv = v]
setLocalPassedIn(r, v) == [r EXCEPT !.localsPassedIntoFunc.par = v]

\* setVarBeingSet(varBeingSet, value)
setVarBeingSet(r, ns, v) == IF ns = "local" THEN setLocal(r, v) ELSE setGlobal(r, v)

pushLocalStack(r) ==
    [r EXCEPT !.localStack = Append(@, r.local),
              !.local = r.localsPassedIntoFunc,
              !.localsPassedIntoFunc = EmptyFrame]

popLocalStack(r) ==
    IF r.localStack = << >>
    THEN [r EXCEPT !.local = UndefinedFrame]
    ELSE [r EXCEPT !.local = r.localStack[Len(r.localStack)],
                   !.localStack = SubSeq(@, 1, Len(@) - 1)]

RECURSIVE popTimes(_, _)
popTimes(r, n) == IF n = 0 THEN r ELSE popTimes(popLocalStack(r), n - 1)

setPause(r, p) == [r EXCEPT !.isPaused = p]

\* toNextReadyStep / getNextReadyStep
getNextReadyStep(r) ==
    IF r.currBranch = 0 \/ isComplete(r, r.currBranch) THEN Null
    ELSE IF r.currStep = Null THEN nextStep(r, r.currBranch)
    ELSE IF stepIsComplete(r, r.currStep) THEN nextStep(r, r.currBranch)
    ELSE r.currStep

toNextReadyStep(r) ==
    LET nextReadyStep == getNextReadyStep(r)
    IN  IF nextReadyStep = Null \/ r.currStep # nextReadyStep
        THEN [nextStepAdvance(r, r.currBranch) EXCEPT !.currStep = nextStep(r, r.currBranch)]
        ELSE r

\* getLastStep()
getLastStep(r) ==
    LET cs == getNextReadyStep(r)
    IN  IF cs # Null
        THEN (IF cs[2] - 1 < 1 THEN Null ELSE << r.currBranch, cs[2] - 1 >>)
        ELSE IF r.currBranch # 0 /\ isComplete(r, r.currBranch)
             THEN << r.currBranch, Len(r.branches[r.currBranch].steps) >>
             ELSE Null


\* ------------------------------------------------------------------------
\* RunInstance.runHookStep: what a failing hook does (the catch block)
\* ------------------------------------------------------------------------
\* the error thrown by the hook awaited in r, after fillErrorFromStep has
\* filled in the hook step it comes from (line 378)
HookError(r) == "HookError:" \o r.pc \o ":" \o ToString(r.hookIdx)
IsHookError(e) == e \notin {NoError, "CodeBlockError"}

\* hookFailed, with the error of the hook always handed on to markStep and
\* markBranch
hookFailed_OverwritesError(r, ref, b) ==
    IF ref # Null
    THEN LET r1 == markStep(r, ref, 0, FALSE, FALSE, HookError(r), FALSE)
             r2 == [r1 EXCEPT !.sstate[ref[1]][ref[2]].hookFailed = TRUE]
         IN  IF b # 0 THEN markBranch(r2, b, FALSE, NoError) ELSE r2
    ELSE IF b # 0
         THEN markBranch(r, b, FALSE, HookError(r))
         ELSE r

\* ref = Null: no stepToGetError; b = 0: no branchToGetError
hookFailed(r, ref, b) ==
    IF ref # Null
    THEN LET e == IF SS(r, ref).error # NoError THEN NoError ELSE HookError(r)
             r1 == markStep(r, ref, 0, FALSE, FALSE, e, FALSE)
             r2 == [r1 EXCEPT !.sstate[ref[1]][ref[2]].hookFailed = TRUE]
         IN  IF b # 0 THEN markBranch(r2, b, FALSE, NoError) ELSE r2
    ELSE IF b # 0
         THEN markBranch(r, b, FALSE,
                         IF r.bstate[b].error # NoError THEN NoError ELSE HookError(r))
         ELSE r

\* a hook's evaluation begins
startHook(r, b, kind, i) ==
    [r EXCEPT !.pc = kind, !.hookIdx = i, !.execLog = Append(@, << b, i, kind >>)]

\* an operation returns to its caller
Done(r, value) == [r EXCEPT !.op = "idle", !.pc = "idle", !.ret = value]

\* ------------------------------------------------------------------------
\* RunInstance.runStep, in segments between its awaits
\* ------------------------------------------------------------------------
\* runStep returns: the caller continues at its await
ReturnFromRunStep(r) ==
    [r EXCEPT !.pc = "runStepReturned",
              !.ranInfo[Len(r.ranInfo)].depthAfter = Len(r.localStack)]

\* FinishStep, without the pause of pauseOnFail
FinishStep_NoPauseOnFail(r) ==
    LET r2 == IF StepOf(r, r.rsStep).isAfterDebug /\ ~r.rsOverride
              THEN setPause(r, TRUE) ELSE r
    IN  ReturnFromRunStep(r2)

\* lines 322-362: pauseOnFail and the after-debug gate
FinishStep(r) ==
    LET ss == SS(r, r.rsStep)
        r1 == IF r.pauseOnFail /\ (~ss.isPassed \/ ss.asExpected # "true")
              THEN setPause(r, TRUE) ELSE r
        r2 == IF StepOf(r, r.rsStep).isAfterDebug /\ ~r.rsOverride
              THEN setPause(r1, TRUE) ELSE r1
    IN  ReturnFromRunStep(r2)

\* lines 311-320: start of the After Every Step hooks
AfterEveryStep(r) ==
    IF r.branches[r.rsStep[1]].afterEveryStep > 0
    THEN startHook(r, r.rsStep[1], "afterEveryStep", 1)
    ELSE FinishStep(r)

\* lines 299-306
finishBranchNow(r, passed, error) ==
    /\ ~passed
    /\ ~(error = "CodeBlockErrorContinue" \/ r.pauseOnFail)

\* MarkStepResult, marking failures only
MarkStepResult_FailuresOnly(r, error) ==
    LET st == StepOf(r, r.rsStep)
        passed == (error = NoError)
        err == IF st.isExpectedFail /\ passed THEN "StepPassedButExpectedToFail" ELSE error
        r1 == markStep(r, r.rsStep, r.rsStep[1], passed,
                       st.isExpectedFail = ~passed, err,
                       finishBranchNow(r, passed, err))
    IN  AfterEveryStep(IF passed THEN r ELSE r1)

\* MarkStepResult, taking asExpected to be isPassed
MarkStepResult_IgnoresExpectedFail(r, error) ==
    LET st == StepOf(r, r.rsStep)
        passed == (error = NoError)
        err == IF st.isExpectedFail /\ passed THEN "StepPassedButExpectedToFail" ELSE error
        r1 == markStep(r, r.rsStep, r.rsStep[1], passed, passed, err,
                       finishBranchNow(r, passed, err))
    IN  AfterEveryStep(r1)

\* lines 291-308: marks the step; error is what the try/catch left
\* (finishArg is history: the finishBranchNow argument passed to markStep)
MarkStepResult(r, error) ==
    LET st == StepOf(r, r.rsStep)
        passed == (error = NoError)
        err == IF st.isExpectedFail /\ passed THEN "StepPassedButExpectedToFail" ELSE error
        r1 == markStep(r, r.rsStep, r.rsStep[1], passed,
                       st.isExpectedFail = ~passed, err,
                       finishBranchNow(r, passed, err))
        r2 == [r1 EXCEPT !.ranInfo[Len(r.ranInfo)].finishArg =
                            IF finishBranchNow(r, passed, err) THEN "true" ELSE "false"]
    IN  AfterEveryStep(r2)

\* scopeTransition, without the pop on leaving a code block function at
\* equal indent
scopeTransition_NoPopAfterCodeBlockFunc(r) ==
    LET ref == r.rsStep
        step == StepOf(r, ref)
        r1 == IF ref[2] >= 2
              THEN LET prevStep == StepOf(r, << ref[1], ref[2] - 1 >>)
                       prevStepWasACodeBlockFunc ==
                           prevStep.isFunctionCall /\ prevStep.hasCodeBlock
                   IN  IF step.branchIndents > prevStep.branchIndents
                       THEN (IF ~prevStepWasACodeBlockFunc THEN pushLocalStack(r) ELSE r)
                       ELSE IF step.branchIndents < prevStep.branchIndents
                       THEN popTimes(r, prevStep.branchIndents - step.branchIndents)
                       ELSE r
              ELSE r
    IN  [r1 EXCEPT !.localsPassedIntoFunc = EmptyFrame]

\* lines 174-198: push/pop of the local stack on entering the step
scopeTransition(r) ==
    LET ref == r.rsStep
        step == StepOf(r, ref)
        r1 == IF ref[2] >= 2
              THEN LET prevStep == StepOf(r, << ref[1], ref[2] - 1 >>)
                       prevStepWasACodeBlockFunc ==
                           prevStep.isFunctionCall /\ prevStep.hasCodeBlock
                   IN  IF step.branchIndents > prevStep.branchIndents
                       THEN (IF ~prevStepWasACodeBlockFunc THEN pushLocalStack(r) ELSE r)
                       ELSE IF step.branchIndents < prevStep.branchIndents
                       THEN popTimes(r, prevStep.branchIndents - step.branchIndents)
                       ELSE (IF prevStepWasACodeBlockFunc THEN popLocalStack(r) ELSE r)
              ELSE r
    IN  [r1 EXCEPT !.localsPassedIntoFunc = EmptyFrame]

\* history: the scope the step body starts in
noteScope(r) ==
    [r EXCEPT !.ranInfo[Len(r.ranInfo)] =
        [@ EXCEPT !.bodyRan = TRUE, !.snapDepth = Len(r.localStack), !.snapLocal = r.local]]

\* lines 166-289 up to the await of the code block
StepBody(r) ==
    LET ref == r.rsStep
        step == StepOf(r, ref)
        r1 == noteScope(scopeTransition(r))
        \* lines 206-239: inputs of a function call
        bindThrows == step.isFunctionCall /\ step.par = "bad"
        r2 == IF step.isFunctionCall /\ step.par = "ok" THEN setLocalPassedIn(r1, ref) ELSE r1
        \* lines 242-256: {var}='str'
        assigns == ~bindThrows /\ ~step.isFunctionCall /\ ~step.hasCodeBlock
                      /\ step.sets # "none"
        assignThrows == assigns /\ step.sets = "local" /\ ~canSetLocal(r2)
        r3 == IF assigns /\ ~assignThrows THEN setVarBeingSet(r2, step.sets, ref) ELSE r2
        thrown == [r3 EXCEPT !.ranInfo[Len(r3.ranInfo)].threw = "throw"]
    IN  IF bindThrows THEN MarkStepResult(thrown, "VarNotSet")
        ELSE IF assignThrows THEN MarkStepResult(thrown, "TypeError")
        ELSE IF step.hasCodeBlock
        THEN LET r4 == IF step.isFunctionCall
                       THEN [pushLocalStack(r3) EXCEPT !.ranInfo[Len(r3.ranInfo)].ownPush = TRUE]
                       ELSE r3
             IN  [r4 EXCEPT !.pc = "codeBlock"]
        ELSE MarkStepResult(r3, NoError)

\* recordStepRan, forgetting the step
recordStepRan_Forgets(r, ref) == r

\* line 144
recordStepRan(r, ref) == [r EXCEPT !.stepsRan = Append(@, ref)]

\* lines 147-150
resetStepState(r, ref) ==
    [r EXCEPT !.sstate[ref[1]][ref[2]] =
        [@ EXCEPT !.isPassed = FALSE, !.isFailed = FALSE, !.isSkipped = FALSE,
                  !.error = NoError, !.hookFailed = FALSE]]

\* EnterRunStep, recording the step before the debug gate
EnterRunStep_RecordsBeforeGate(r, ref, od) ==
    LET r0 == [r EXCEPT !.rsStep = ref, !.rsOverride = od]
    IN  IF StepOf(r, ref).isBeforeDebug /\ ~od
        THEN [setPause(resetStepState(recordStepRan(r0, ref), ref), TRUE)
                 EXCEPT !.pc = "runStepReturned"]
        ELSE LET r1 == resetStepState(recordStepRan(r0, ref), ref)
                 r2 == [r1 EXCEPT !.execLog = Append(@, ref),
                                  !.ranInfo = Append(@, [depthEntry |-> Len(r.localStack),
                                                         depthAfter |-> -1,
                                                         bodyRan |-> FALSE,
                                                         snapDepth |-> 0,
                                                         snapLocal |-> EmptyFrame,
                                                         ownPush |-> FALSE,
                                                         besFailed |-> 0,
                                                         threw |-> "no",
                                                         finishArg |-> "none"])]
             IN  IF r.branches[ref[1]].beforeEveryStep > 0
                 THEN startHook(r2, ref[1], "beforeEveryStep", 1)
                 ELSE StepBody(r2)

\* lines 132-164: runStep(step, branch, overrideDebug) up to its first await
EnterRunStep(r, ref, od) ==
    LET r0 == [r EXCEPT !.rsStep = ref, !.rsOverride = od]
    IN  IF StepOf(r, ref).isBeforeDebug /\ ~od
        THEN [setPause(r0, TRUE) EXCEPT !.pc = "runStepReturned"]
        ELSE LET r1 == resetStepState(recordStepRan(r0, ref), ref)
                 r2 == [r1 EXCEPT !.execLog = Append(@, ref),
                                  !.ranInfo = Append(@, [depthEntry |-> Len(r.localStack),
                                                         depthAfter |-> -1,
                                                         bodyRan |-> FALSE,
                                                         snapDepth |-> 0,
                                                         snapLocal |-> EmptyFrame,
                                                         ownPush |-> FALSE,
                                                         besFailed |-> 0,
                                                         threw |-> "no",
                                                         finishArg |-> "none"])]
             IN  IF r.branches[ref[1]].beforeEveryStep > 0
                 THEN startHook(r2, ref[1], "beforeEveryStep", 1)
                 ELSE StepBody(r2)

\* BeforeEveryStepDone, going on after a failed hook
BeforeEveryStepDone_IgnoresFailure(r, ok) ==
    LET ref == r.rsStep
        r1 == IF ok THEN r
              ELSE [hookFailed(r, ref, ref[1]) EXCEPT
                       !.ranInfo[Len(r.ranInfo)].besFailed = r.hookIdx]
    IN  IF r1.isStopped THEN ReturnFromRunStep(r1)
        ELSE IF r.hookIdx < r.branches[ref[1]].beforeEveryStep
        THEN startHook(r1, ref[1], "beforeEveryStep", r.hookIdx + 1)
        ELSE StepBody(r1)

\* lines 156-163: a Before Every Step hook finished (besFailed is history:
\* the index of the hook that failed)
BeforeEveryStepDone(r, ok) ==
    LET ref == r.rsStep
        r1 == IF ok THEN r
              ELSE [hookFailed(r, ref, ref[1]) EXCEPT
                       !.ranInfo[Len(r.ranInfo)].besFailed = r.hookIdx]
    IN  IF r1.isStopped THEN ReturnFromRunStep(r1)
        ELSE IF SS(r1, ref).isFailed THEN AfterEveryStep(r1)
        ELSE IF r.hookIdx < r.branches[ref[1]].beforeEveryStep
        THEN startHook(r1, ref[1], "beforeEveryStep", r.hookIdx + 1)
        ELSE StepBody(r1)

\* lines 267-289: the code block finished; outcome is "return", "throw" or
\* "throwContinue" (an error with error.continue set).  The code block of a
\* step calls setPersistent, setGlobal and setLocal with the step as value.
CodeBlockDone(r, outcome) ==
    LET ref == r.rsStep
        step == StepOf(r, ref)
        r1 == setGlobal(setPersistent(r, ref), ref)
        typeError == ~canSetLocal(r1)
        r2 == IF typeError THEN r1 ELSE setLocal(r1, ref)
        out == IF typeError THEN "throw" ELSE outcome
    IN  IF out = "return"
        THEN LET r3 == IF step.sets # "none" THEN setVarBeingSet(r2, step.sets, ref) ELSE r2
             IN  IF r3.isStopped THEN ReturnFromRunStep(r3)
                 ELSE MarkStepResult(r3, NoError)
        ELSE MarkStepResult([r2 EXCEPT !.ranInfo[Len(r2.ranInfo)].threw = out],
                 IF r2.isStopped THEN NoError
                 ELSE IF out = "throwContinue" THEN "CodeBlockErrorContinue"
                 ELSE "CodeBlockError")

\* AfterEveryStepDone, abandoning the chain when a hook fails
AfterEveryStepDone_BreaksOnFailure(r, ok) ==
    LET ref == r.rsStep
        r1 == IF ok THEN r ELSE hookFailed(r, ref, ref[1])
    IN  IF r1.isStopped THEN ReturnFromRunStep(r1)
        ELSE IF ok /\ r.hookIdx < r.branches[ref[1]].afterEveryStep
        THEN startHook(r1, ref[1], "afterEveryStep", r.hookIdx + 1)
        ELSE FinishStep(r1)

\* lines 313-319: an After Every Step hook finished
AfterEveryStepDone(r, ok) ==
    LET ref == r.rsStep
        r1 == IF ok THEN r ELSE hookFailed(r, ref, ref[1])
    IN  IF r1.isStopped THEN ReturnFromRunStep(r1)
        ELSE IF r.hookIdx < r.branches[ref[1]].afterEveryStep
        THEN startHook(r1, ref[1], "afterEveryStep", r.hookIdx + 1)
        ELSE FinishStep(r1)


\* ------------------------------------------------------------------------
\* RunInstance.run and runAfterEveryBranch, in segments between awaits
\* ------------------------------------------------------------------------
\* lines 877-887: start of the After Every Branch hooks
RunAfterEveryBranch(r) ==
    IF r.branches[r.currBranch].afterEveryBranch > 0
    THEN startHook(r, r.currBranch, "afterEveryBranch", 1)
    ELSE [r EXCEPT !.pc = "afterEveryBranchReturned"]

\* lines 99-116: the steps of the branch, up to the first await
RunSteps(r) ==
    IF ~isComplete(r, r.currBranch)
    THEN LET r1 == toNextReadyStep(r)
         IN  IF r1.currStep # Null
             THEN EnterRunStep(r1, r1.currStep, r1.overrideDebug)
             ELSE RunAfterEveryBranch(r1)
    ELSE RunAfterEveryBranch(r)

\* lines 59-63: reset variable state
resetVariableState(r) ==
    [r EXCEPT !.global = globalInit, !.local = EmptyFrame, !.localStack = << >>]

\* history: the variable state the branch starts with (before: the state
\* the previous branch left)
noteBranchStart(r, before) ==
    [r EXCEPT !.branchStart =
        [b |-> r.currBranch, global |-> r.global, local |-> r.local,
         depth |-> Len(r.localStack), readableLocal |-> getLocal(r),
         persistent |-> r.persistent, persistentBefore |-> before.persistent]]

\* lines 52-97: top of the while loop, up to the first await
WhileCurrBranch(r) ==
    IF r.currBranch = 0 THEN Done(r, "undefined")
    ELSE IF r.isStopped THEN Done(r, "undefined")
    ELSE LET r1 == resetVariableState(r)
             r2 == IF r.wasPaused THEN r1 ELSE noteBranchStart(r1, r)
         IN  IF r.branches[r.currBranch].beforeEveryBranch > 0 /\ ~r.wasPaused
             THEN startHook(r2, r.currBranch, "beforeEveryBranch", 1)
             ELSE RunSteps(r2)

\* ------------------------------------------------------------------------
\* Actions
\* ------------------------------------------------------------------------
CanStart == op = "idle" /\ opsStarted < MaxOps

\* an operation begins
Begin(name) ==
    [Cur EXCEPT !.op = name, !.opsStarted = @ + 1,
                !.opStart =
                    [name |-> name, prevName |-> opStart.name, prevLen |-> opStart.len,
                     prevRet |-> ret,
                     len |-> Len(stepsRan), logLen |-> Len(execLog),
                     paused |-> isPaused, stopped |-> isStopped,
                     branch |-> currBranch, currStep |-> currStep,
                     next |-> getNextReadyStep(Cur),
                     complete |-> (currBranch # 0 /\ isComplete(Cur, currBranch)),
                     sstate |-> sstate,
                     variables |-> << persistent, global, local, localStack,
                                      localsPassedIntoFunc >>]]

\* Run, without the rejection of a stopped instance
Run_IgnoresStop ==
    /\ CanStart
    /\ IF isPaused
       THEN Becomes(WhileCurrBranch(
                [setPause(Begin("run"), FALSE) EXCEPT !.wasPaused = TRUE,
                                             !.overrideDebug = TRUE]))
       ELSE Becomes(WhileCurrBranch(
                [takeNextBranch(Begin("run")) EXCEPT !.wasPaused = FALSE,
                                            !.overrideDebug = FALSE]))

\* run(), lines 36-50
Run ==
    /\ CanStart
    /\ IF isStopped
       THEN Becomes(Done(Begin("run"), "error"))
       ELSE IF isPaused
       THEN Becomes(WhileCurrBranch(
                [setPause(Begin("run"), FALSE) EXCEPT !.wasPaused = TRUE,
                                             !.overrideDebug = TRUE]))
       ELSE Becomes(WhileCurrBranch(
                [takeNextBranch(Begin("run")) EXCEPT !.wasPaused = FALSE,
                                            !.overrideDebug = FALSE]))

\* BeforeEveryBranchDone, going to the next branch without the After Every
\* Branch hooks
BeforeEveryBranchDone_SkipsAfterHooks ==
    /\ pc = "beforeEveryBranch"
    /\ \E ok \in BOOLEAN :
        LET r1 == IF ok THEN Cur
                  ELSE [hookFailed(Cur, Null, currBranch) EXCEPT
                           !.bstate[currBranch].bebFailed = hookIdx]
        IN  Becomes(IF r1.isStopped THEN Done(r1, "undefined")
                    ELSE IF r1.bstate[currBranch].isFailed
                    THEN [r1 EXCEPT !.pc = "afterEveryBranchReturned"]
                    ELSE IF hookIdx < branches[currBranch].beforeEveryBranch
                    THEN startHook(r1, currBranch, "beforeEveryBranch", hookIdx + 1)
                    ELSE RunSteps(r1))

\* run(), lines 72-92: a Before Every Branch hook finished
BeforeEveryBranchDone ==
    /\ pc = "beforeEveryBranch"
    /\ \E ok \in BOOLEAN :
        LET r1 == IF ok THEN Cur
                  ELSE [hookFailed(Cur, Null, currBranch) EXCEPT
                           !.bstate[currBranch].bebFailed = hookIdx]
        IN  Becomes(IF r1.isStopped THEN Done(r1, "undefined")
                    ELSE IF r1.bstate[currBranch].isFailed THEN RunAfterEveryBranch(r1)
                    ELSE IF hookIdx < branches[currBranch].beforeEveryBranch
                    THEN startHook(r1, currBranch, "beforeEveryBranch", hookIdx + 1)
                    ELSE RunSteps(r1))

\* runAfterEveryBranch(), lines 881-892: an After Every Branch hook finished
AfterEveryBranchDone ==
    /\ pc = "afterEveryBranch"
    /\ \E ok \in BOOLEAN :
        LET r1 == IF ok THEN Cur
                  ELSE [hookFailed(Cur, Null, currBranch) EXCEPT
                           !.bstate[currBranch].aebFailed = hookIdx]
        IN  Becomes(IF r1.isStopped THEN [r1 EXCEPT !.pc = "afterEveryBranchReturned"]
                    ELSE IF hookIdx < branches[currBranch].afterEveryBranch
                    THEN startHook(r1, currBranch, "afterEveryBranch", hookIdx + 1)
                    ELSE [r1 EXCEPT !.pc = "afterEveryBranchReturned"])

\* AfterEveryBranchReturned, with run() returning after the first branch
AfterEveryBranchReturned_ReturnsAfterOneBranch ==
    /\ pc = "afterEveryBranchReturned"
    /\ IF op = "run"
       THEN Becomes(Done(Cur, "undefined"))
       ELSE Becomes(Done(Cur, "true"))

\* the caller of runAfterEveryBranch() continues (lines 81-95, 118, 425, 447, 452)
AfterEveryBranchReturned ==
    /\ pc = "afterEveryBranchReturned"
    /\ IF op = "run"
       THEN Becomes(WhileCurrBranch(takeNextBranch(Cur)))
       ELSE Becomes(Done(Cur, "true"))

BeforeEveryStepHookDone ==
    /\ pc = "beforeEveryStep"
    /\ \E ok \in BOOLEAN : Becomes(BeforeEveryStepDone(Cur, ok))

CodeBlockFinished ==
    /\ pc = "codeBlock"
    /\ \E outcome \in {"return", "throw", "throwContinue"} :
          Becomes(CodeBlockDone(Cur, outcome))

AfterEveryStepHookDone ==
    /\ pc = "afterEveryStep"
    /\ \E ok \in BOOLEAN : Becomes(AfterEveryStepDone(Cur, ok))

\* RunStepReturned, with run() keeping overrideDebug for the later steps
RunStepReturned_KeepsOverride ==
    /\ pc = "runStepReturned"
    /\ IF op = "run"
       THEN IF isPaused \/ isStopped
            THEN Becomes(Done(Cur, "undefined"))
            ELSE LET r2 == toNextReadyStep(Cur)
                 IN  IF r2.currStep # Null
                     THEN Becomes(EnterRunStep(r2, r2.currStep, r2.overrideDebug))
                     ELSE Becomes(RunAfterEveryBranch(r2))
       ELSE IF op = "runOneStep"
       THEN Becomes(Done(setPause(toNextReadyStep(Cur), TRUE), "false"))
       ELSE IF op = "runLastStep"
       THEN Becomes(Done(Cur, "undefined"))
       ELSE IF SS(Cur, rsStep).isFailed \/ rsStep[2] = Len(branches[rsStep[1]].steps)
            THEN Becomes(Done(setPause(Cur, TRUE), "branch"))
            ELSE Becomes(EnterRunStep(Cur, << rsStep[1], rsStep[2] + 1 >>, TRUE))

\* RunStepReturned, with injectStep() going on after a failed step
RunStepReturned_InjectContinues ==
    /\ pc = "runStepReturned"
    /\ IF op = "run"
       THEN LET r1 == [Cur EXCEPT !.overrideDebug = FALSE]
            IN  IF r1.isPaused \/ r1.isStopped
                THEN Becomes(Done(r1, "undefined"))
                ELSE LET r2 == toNextReadyStep(r1)
                     IN  IF r2.currStep # Null
                         THEN Becomes(EnterRunStep(r2, r2.currStep, FALSE))
                         ELSE Becomes(RunAfterEveryBranch(r2))
       ELSE IF op = "runOneStep"
       THEN Becomes(Done(setPause(toNextReadyStep(Cur), TRUE), "false"))
       ELSE IF op = "runLastStep"
       THEN Becomes(Done(Cur, "undefined"))
       ELSE IF rsStep[2] = Len(branches[rsStep[1]].steps)
            THEN Becomes(Done(setPause(Cur, TRUE), "branch"))
            ELSE Becomes(EnterRunStep(Cur, << rsStep[1], rsStep[2] + 1 >>, TRUE))

\* the caller of runStep() continues (lines 106-111, 419-421, 464, 514-521)
RunStepReturned ==
    /\ pc = "runStepReturned"
    /\ IF op = "run"
       THEN LET r1 == [Cur EXCEPT !.overrideDebug = FALSE]
            IN  IF r1.isPaused \/ r1.isStopped
                THEN Becomes(Done(r1, "undefined"))
                ELSE LET r2 == toNextReadyStep(r1)
                     IN  IF r2.currStep # Null
                         THEN Becomes(EnterRunStep(r2, r2.currStep, FALSE))
                         ELSE Becomes(RunAfterEveryBranch(r2))
       ELSE IF op = "runOneStep"
       THEN Becomes(Done(setPause(toNextReadyStep(Cur), TRUE), "false"))
       ELSE IF op = "runLastStep"
       THEN Becomes(Done(Cur, "undefined"))
       ELSE \* injectStep
            IF SS(Cur, rsStep).isFailed \/ rsStep[2] = Len(branches[rsStep[1]].steps)
            THEN Becomes(Done(setPause(Cur, TRUE), "branch"))
            ELSE Becomes(EnterRunStep(Cur, << rsStep[1], rsStep[2] + 1 >>, TRUE))

\* runOneStep(), lines 415-427
RunOneStep ==
    /\ CanStart
    /\ isPaused
    /\ currBranch # 0
    /\ LET r1 == toNextReadyStep(Begin("runOneStep"))
       IN  IF r1.currStep # Null
           THEN Becomes(EnterRunStep(r1, r1.currStep, TRUE))
           ELSE Becomes(RunAfterEveryBranch(r1))

\* skipOneStep(), lines 434-454
SkipOneStep ==
    /\ CanStart
    /\ isPaused
    /\ currBranch # 0
    /\ LET r0 == Begin("skipOneStep")
       IN  IF currStep # Null
           THEN LET r1 == toNextReadyStep(r0)
                IN  IF r1.currStep # Null
                    THEN LET r2 == markStepSkipped(r1, r1.currStep, r1.currBranch)
                             r3 == [nextStepAdvance(r2, r2.currBranch)
                                       EXCEPT !.currStep = nextStep(r2, r2.currBranch)]
                         IN  Becomes(Done(setPause(r3, TRUE), "false"))
                    ELSE Becomes(RunAfterEveryBranch(r1))
           ELSE Becomes(RunAfterEveryBranch(r0))

\* runLastStep(), lines 460-465
RunLastStep ==
    /\ CanStart
    /\ isPaused
    /\ currBranch # 0
    /\ LET lastStep == getLastStep(Cur)
       IN  IF lastStep # Null
           THEN Becomes(EnterRunStep(Begin("runLastStep"), lastStep, TRUE))
           ELSE Becomes(Done(Begin("runLastStep"), "undefined"))

\* injectStep(step), lines 499-522; shape is what tree.branchify() returns
InjectStep ==
    /\ CanStart
    /\ isPaused
    /\ Cardinality({ b \in 1..Len(branches) : branches[b].synthesized }) < MaxInject
    /\ \E shape \in InjectShapes :
        LET r0 == [Begin("injectStep") EXCEPT
                              !.branches = Append(@, MkInjected(shape)),
                              !.bstate = Append(@, FreshBranch),
                              !.sstate = Append(@, [i \in 1..Len(shape) |-> FreshStep])]
        IN  Becomes(EnterRunStep(r0, << Len(r0.branches), 1 >>, TRUE))

\* stop(), lines 403-408
Stop ==
    /\ ~isStopped
    /\ LET r1 == [Cur EXCEPT !.isStopped = TRUE, !.stopAt = << pc, rsStep, Len(stepsRan) >>]
       IN  Becomes(IF currBranch # 0 THEN branchStop(r1, currBranch) ELSE r1)

\* the code block in flight (or the runner) pauses the instance; only legal
\* when the tree has exactly one branch
PauseDuringCodeBlock ==
    /\ pc = "codeBlock"
    /\ ~isPaused
    /\ treeSize(Cur) = 1
    /\ Becomes(setPause(Cur, TRUE))

Next ==
    \/ Run
    \/ BeforeEveryBranchDone
    \/ AfterEveryBranchDone
    \/ AfterEveryBranchReturned
    \/ BeforeEveryStepHookDone
    \/ CodeBlockFinished
    \/ AfterEveryStepHookDone
    \/ RunStepReturned
    \/ RunOneStep
    \/ SkipOneStep
    \/ RunLastStep
    \/ InjectStep
    \/ Stop
    \/ PauseDuringCodeBlock

Spec == Init /\ [][Next]_vars

TypeOK ==
    /\ op \in {"idle", "run", "runOneStep", "skipOneStep", "runLastStep", "injectStep"}
    /\ pc \in {"idle", "beforeEveryBranch", "beforeEveryStep", "codeBlock",
               "afterEveryStep", "afterEveryBranch", "runStepReturned",
               "afterEveryBranchReturned"}
    /\ (op = "idle") <=> (pc = "idle")
    /\ Len(ranInfo) = Len(stepsRan)


\* a RunInstance on which no operation is called
Untouched ==
    /\ branches = << >>
    /\ pauseOnFail = FALSE
    /\ bstate = << >>
    /\ sstate = << >>
    /\ currBranch = 0
    /\ currStep = Null
    /\ isPaused = FALSE
    /\ isStopped = FALSE
    /\ persistent = Null
    /\ global = [gv |-> Null]
    /\ local = EmptyFrame
    /\ localStack = << >>
    /\ localsPassedIntoFunc = EmptyFrame
    /\ stepsRan = << >>
    /\ op = "idle"
    /\ pc = "idle"
    /\ wasPaused = FALSE
    /\ overrideDebug = FALSE
    /\ rsStep = Null
    /\ rsOverride = FALSE
    /\ hookIdx = 0
    /\ ret = "none"
    /\ execLog = << >>
    /\ ranInfo = << >>
    /\ stopAt = << "none", Null, 0 >>
    /\ branchStart = NoBranchStart
    /\ opsStarted = 0
    /\ opStart = NoOpStart

engineVars == << branches, pauseOnFail, bstate, sstate, currBranch, currStep, isPaused,
                 isStopped, persistent, global, local, localStack, localsPassedIntoFunc,
                 stepsRan, op, pc, wasPaused, overrideDebug, rsStep, rsOverride, hookIdx,
                 ret, execLog, ranInfo, stopAt, branchStart, opsStarted, opStart >>

VarInit ==
    /\ Untouched
    /\ \E env \in VarEnvs, branch \in VarBranches :
          \E at \in 1..Len(branch) : vq = [env |-> env, branch |-> branch, at |-> at]
    /\ vres = NoAnswer

\* findVarValue(varname, isLocal, step, branch) is called
FindVar ==
    /\ vres.pc = "start"
    /\ \E varname \in RawNames, isLocal \in BOOLEAN :
          vres' = [NoAnswer EXCEPT !.pc = "found", !.varname = varname, !.isLocal = isLocal,
                      !.out = findVarValue(vq.env, vq.branch, vq.at, varname, isLocal, 1)]
    /\ UNCHANGED << vq, engineVars >>

\* replaceVars(text, step, branch) is called
ReplaceVars ==
    /\ vres.pc = "start"
    /\ \E text \in VarTexts :
          vres' = [NoAnswer EXCEPT !.pc = "replaced", !.text = text,
                      !.out = replaceVars(vq.env, vq.branch, vq.at, Str(text), 1)]
    /\ UNCHANGED << vq, engineVars >>

\* replaceVars is called on the text replaceVars returned
ReplaceVarsAgain ==
    /\ vres.pc = "replaced"
    /\ vres.out.err = "none"
    /\ vres' = [vres EXCEPT !.pc = "replacedAgain", !.first = vres.out,
                   !.out = replaceVars(vq.env, vq.branch, vq.at, vres.out.value, 1)]
    /\ UNCHANGED << vq, engineVars >>

VarNext ==
    \/ FindVar
    \/ ReplaceVars
    \/ ReplaceVarsAgain

VarSpec == VarInit /\ [][VarNext]_vars

\* ------------------------------------------------------------------------
\* RunInstance.fillErrorFromStep
\* ------------------------------------------------------------------------
\* A stack is the sequence of its frames, innermost first.  A frame either
\* matches /at CodeBlock[^\n]+<anonymous>:[0-9]+/ (codeBlock, with the line
\* number N after <anonymous>:) or does not.
Frame(codeBlock, line) == [codeBlock |-> codeBlock, line |-> line]
MaxFrames == 3
FrameKinds == { Frame(TRUE, 3), Frame(TRUE, 7), Frame(FALSE, 50) }
Stacks == UNION { [1..n -> FrameKinds] : n \in 0..MaxFrames }

\* An error as user code threw it: filename and lineNumber are "unset" and 0
\* unless user code set them.
Err(filename, lineNumber, stack) ==
    [filename |-> filename, lineNumber |-> lineNumber, stack |-> stack]
Errors == { Err(f, l, s) : f \in {"unset", "user.js"}, l \in {0, 99}, s \in Stacks }

\* The fields of the step fillErrorFromStep reads; declFilename and
\* declLineNumber are those of originalStepInTree.functionDeclarationInTree.
ErrStep(isFunctionCall, isHook, isPackaged) ==
    [filename |-> "call.smash", lineNumber |-> 10,
     isFunctionCall |-> isFunctionCall, isHook |-> isHook, isPackaged |-> isPackaged,
     declFilename |-> "decl.smash", declLineNumber |-> 20]
ErrSteps == { ErrStep(f, h, p) : f \in BOOLEAN, h \in BOOLEAN, p \in BOOLEAN }

\* error.stack.toString().match(/at CodeBlock[^\n]+<anonymous>:[0-9]+/g):
\* the matching frames, in the order of the stack
matches(stack) == SelectSeq(stack, LAMBDA f : f.codeBlock)

\* fillErrorFromStep, taking the line number of the last matching frame
fillErrorFromStep_LastMatch(error, step, inCodeBlock) ==
    LET e1 == [error EXCEPT !.filename = step.filename, !.lineNumber = step.lineNumber]
        e2 == IF step.isFunctionCall /\ inCodeBlock /\ ~step.isHook /\ ~step.isPackaged
              THEN [e1 EXCEPT !.filename = step.declFilename,
                              !.lineNumber = step.declLineNumber]
              ELSE e1
        m == matches(error.stack)
    IN  IF inCodeBlock /\ ~step.isPackaged /\ m # << >>
        THEN [e2 EXCEPT !.lineNumber = m[Len(m)].line]
        ELSE e2

\* fillErrorFromStep(error, step, inCodeBlock), lines 953-974: the error as
\* it leaves
fillErrorFromStep(error, step, inCodeBlock) ==
    LET e1 == [error EXCEPT !.filename = step.filename, !.lineNumber = step.lineNumber]
        e2 == IF step.isFunctionCall /\ inCodeBlock /\ ~step.isHook /\ ~step.isPackaged
              THEN [e1 EXCEPT !.filename = step.declFilename,
                              !.lineNumber = step.declLineNumber]
              ELSE e1
        m == matches(error.stack)
    IN  IF inCodeBlock /\ ~step.isPackaged /\ m # << >>
        THEN [e2 EXCEPT !.lineNumber = m[1].line]
        ELSE e2

\* A step's code block or a hook throws error; runStep's catch (lines
\* 284-289) calls fillErrorFromStep with its inCodeBlock, runHookStep's
\* (line 378) with true.
ErrInit ==
    /\ Untouched
    /\ \E error \in Errors, step \in ErrSteps, inCodeBlock \in BOOLEAN :
          /\ (step.isHook => inCodeBlock)
          /\ vq = [error |-> error, step |-> step, inCodeBlock |-> inCodeBlock]
    /\ vres = [pc |-> "thrown", error |-> Err("unset", 0, << >>)]

FillError ==
    /\ vres.pc = "thrown"
    /\ vres' = [pc |-> "filled",
                error |-> fillErrorFromStep(vq.error, vq.step, vq.inCodeBlock)]
    /\ UNCHANGED << vq, engineVars >>

ErrNext == FillError

ErrSpec == ErrInit /\ [][ErrNext]_vars

\* ------------------------------------------------------------------------
\* RunInstance.getPersistent / getGlobal / getLocal and the setters
\* ------------------------------------------------------------------------
\* A variable name as user code passes it is a sequence of characters.
isSpace(ch) == ch \in {" ", "\t"}
toLowerCase(ch) == IF ch = "A" THEN "a" ELSE IF ch = "B" THEN "b" ELSE ch

RECURSIVE trimStart(_)
trimStart(name) ==
    IF name # << >> /\ isSpace(Head(name)) THEN trimStart(Tail(name)) ELSE name

RECURSIVE trimEnd(_)
trimEnd(name) ==
    IF name # << >> /\ isSpace(name[Len(name)])
    THEN trimEnd(SubSeq(name, 1, Len(name) - 1))
    ELSE name

\* every run of whitespace becomes one space
RECURSIVE collapse(_)
collapse(name) ==
    IF name = << >> THEN << >>
    ELSE IF isSpace(Head(name))
         THEN << " " >> \o collapse(trimStart(name))
         ELSE << Head(name) >> \o collapse(Tail(name))

\* utils.keepCaseCanonicalize: trimmed, whitespace collapsed
keepCaseCanonicalize(name) == collapse(trimEnd(trimStart(name)))

\* utils.canonicalize on a name of several characters: trimmed, whitespace
\* collapsed, lower case
canonicalizeName(name) ==
    LET k == keepCaseCanonicalize(name) IN [i \in 1..Len(k) |-> toLowerCase(k[i])]

\* the names imp stores packages under
ImportNames == { << "a", "B" >>, << "A", "b" >>, << "z" >> }

\* the names user code passes
StoreNames ==
    { << "a", " ", "b" >>, << " ", "A", "\t", " ", "b" >>, << "A", " ", "B", " " >>,
      << "a", "b" >> }

\* the property names the variable maps can get
StoreKeys ==
    { canonicalizeName(n) : n \in StoreNames \cup ImportNames }
        \cup { keepCaseCanonicalize(n) : n \in StoreNames \cup ImportNames }

StoreValues == { Str(<< Lit("1") >>), Str(<< Lit("2") >>) }

\* a JavaScript object as the properties it has (Absent: no such property)
EmptyObject == [k \in StoreKeys |-> Absent]

\* obj[key]
property(obj, key) == IF obj[key] = Absent THEN Undefined ELSE obj[key]

\* the variable maps of a RunInstance (constructor, lines 21-26)
NoVariables ==
    [persistent |-> EmptyObject, global |-> EmptyObject, local |-> EmptyObject,
     localsPassedIntoFunc |-> EmptyObject]

\* lines 527-536
getPersistentNamed(st, varname) == property(st.persistent, canonicalizeName(varname))
getGlobalNamed(st, varname) == property(st.global, canonicalizeName(varname))

\* getLocal, reading `local` first
getLocalNamed_PrefersLocal(st, varname) ==
    IF st.local[canonicalizeName(varname)] # Absent
    THEN st.local[canonicalizeName(varname)]
    ELSE property(st.localsPassedIntoFunc, canonicalizeName(varname))

\* lines 541-549
getLocalNamed(st, varname) ==
    IF st.localsPassedIntoFunc[canonicalizeName(varname)] # Absent
    THEN st.localsPassedIntoFunc[canonicalizeName(varname)]
    ELSE property(st.local, canonicalizeName(varname))

\* obj[canonicalize(varname)] = value; obj[keepCaseCanonicalize(varname)] = value
assign(obj, varname, value) ==
    [k \in StoreKeys |->
        IF k = canonicalizeName(varname) \/ k = keepCaseCanonicalize(varname)
        THEN value ELSE obj[k]]

\* lines 554-585
setPersistentNamed(st, varname, value) ==
    [st EXCEPT !.persistent = assign(@, varname, value)]
setGlobalNamed(st, varname, value) ==
    [st EXCEPT !.global = assign(@, varname, value)]
setLocalNamed(st, varname, value) ==
    [st EXCEPT !.local = assign(@, varname, value)]
setLocalPassedInNamed(st, varname, value) ==
    [st EXCEPT !.localsPassedIntoFunc = assign(@, varname, value)]

Namespaces == {"persistent", "global", "local"}

get(st, ns, varname) ==
    IF ns = "persistent" THEN getPersistentNamed(st, varname)
    ELSE IF ns = "global" THEN getGlobalNamed(st, varname)
    ELSE getLocalNamed(st, varname)

set(st, ns, varname, value) ==
    IF ns = "persistent" THEN setPersistentNamed(st, varname, value)
    ELSE IF ns = "global" THEN setGlobalNamed(st, varname, value)
    ELSE IF ns = "local" THEN setLocalNamed(st, varname, value)
    ELSE setLocalPassedInNamed(st, varname, value)

\* Calls made by code blocks on one instance.  vq.st: the variable maps;
\* vq.sets: the number of setter calls so far; vq.last: history, per
\* namespace (and for the staged bindings) and canonical name the value of
\* the latest setter call; vres: the latest call and what a getter returned.
MaxSets == 3

NoSetYet ==
    [ns \in Namespaces \cup {"localsPassedIntoFunc"} |->
        [k \in { canonicalizeName(n) : n \in StoreNames } |-> Undefined]]

StoreInit ==
    /\ Untouched
    /\ vq = [st |-> NoVariables, sets |-> 0, last |-> NoSetYet]
    /\ vres = [call |-> "none", ns |-> "none", varname |-> << >>, out |-> Undefined]

SetVar ==
    /\ vq.sets < MaxSets
    /\ \E ns \in Namespaces \cup {"localsPassedIntoFunc"}, n \in StoreNames, v \in StoreValues :
          /\ vq' = [st |-> set(vq.st, ns, n, v), sets |-> vq.sets + 1,
                    last |-> [vq.last EXCEPT ![ns][canonicalizeName(n)] = v]]
          /\ vres' = [call |-> "set", ns |-> ns, varname |-> n, out |-> v]
    /\ UNCHANGED engineVars

GetVar ==
    /\ vres.call # "get"
    /\ \E ns \in Namespaces, n \in StoreNames :
          vres' = [call |-> "get", ns |-> ns, varname |-> n, out |-> get(vq.st, ns, n)]
    /\ UNCHANGED << vq, engineVars >>

StoreNext ==
    \/ SetVar
    \/ GetVar

StoreSpec == StoreInit /\ [][StoreNext]_vars

\* ------------------------------------------------------------------------
\* RunInstance.imp
\* ------------------------------------------------------------------------
\* packageName.replace(/-([a-z])/g, m => m.toUpperCase()).replace(/-/g, '')
toUpperCase(ch) == IF ch = "a" THEN "A" ELSE IF ch = "b" THEN "B" ELSE ch
isLowerCaseLetter(ch) == ch \in {"a", "b", "z"}

RECURSIVE camelCase(_)
camelCase(packageName) ==
    IF packageName = << >> THEN << >>
    ELSE IF Head(packageName) = "-"
         THEN IF Len(packageName) >= 2 /\ isLowerCaseLetter(packageName[2])
              THEN << toUpperCase(packageName[2]) >> \o camelCase(Tail(Tail(packageName)))
              ELSE camelCase(Tail(packageName))
         ELSE << Head(packageName) >> \o camelCase(Tail(packageName))

\* the packages code blocks import, and the variable names they give
\* (<< >>: varName omitted)
PackageNames == { << "a", "-", "b" >>, << "a", "b" >>, << "z" >> }
GivenVarNames == { << >>, << "A", "b" >> }

\* require(packageName): what the package exports; package z exports the
\* number 0
require(packageName) ==
    IF packageName = << "z" >> THEN Num("0")
    ELSE [type |-> "object", text |-> packageName]

\* the name imp stores the package under (line 604)
impVarName(packageName, varName) ==
    IF varName # << >> THEN varName ELSE camelCase(packageName)

\* imp(packageName, varName), lines 603-609, on the shared persistent map:
\* the map it leaves, whether it called the loader and what it returns
imp(persistent_, packageName, varName) ==
    LET name == impVarName(packageName, varName)
        held == property(persistent_, canonicalizeName(name))
        load == ~truthy(held)
        after == IF load THEN assign(persistent_, name, require(packageName))
                 ELSE persistent_
    IN  [persistent |-> after, loaderCalled |-> load,
         out |-> property(after, canonicalizeName(name))]

\* The RunInstances of one Runner: this.persistent = this.runner.persistent
\* (line 21), one object shared by all of them.  A code block of an instance
\* calls imp; imp has no await, so a call is one step, and the calls of the
\* instances interleave in any order.
Instances == {1, 2}
MaxImps == 3

ImpKeys == { canonicalizeName(impVarName(p, v)) : p \in PackageNames, v \in GivenVarNames }

\* vq.persistent: runner.persistent; vq.loads: history, per variable name the
\* number of loader calls made for it; vres: the latest call of imp
ImpInit ==
    /\ Untouched
    /\ vq = [persistent |-> EmptyObject, loads |-> [k \in ImpKeys |-> 0], calls |-> 0]
    /\ vres = [instance |-> 0, packageName |-> << >>, varName |-> << >>,
               held |-> Undefined, loaderCalled |-> FALSE, out |-> Undefined]

Imp ==
    /\ vq.calls < MaxImps
    /\ \E i \in Instances, p \in PackageNames, v \in GivenVarNames :
          LET res == imp(vq.persistent, p, v)
              k == canonicalizeName(impVarName(p, v))
          IN  /\ vq' = [persistent |-> res.persistent,
                        loads |-> [vq.loads EXCEPT ![k] = @ + (IF res.loaderCalled THEN 1 ELSE 0)],
                        calls |-> vq.calls + 1]
              /\ vres' = [instance |-> i, packageName |-> p, varName |-> v,
                          held |-> property(vq.persistent, k),
                          loaderCalled |-> res.loaderCalled, out |-> res.out]
    /\ UNCHANGED engineVars

ImpNext == Imp

ImpSpec == ImpInit /\ [][ImpNext]_vars

\* ------------------------------------------------------------------------
\* Properties
\* ------------------------------------------------------------------------
InRunStep == pc \in {"beforeEveryStep", "codeBlock", "afterEveryStep"}

\* the steps in stepsRan whose runStep is not in progress
Executed ==
    { stepsRan[k] : k \in 1..Len(stepsRan) } \ (IF InRunStep THEN {rsStep} ELSE {})

ExactlyOneResult(ss) ==
    \/ ss.isPassed /\ ~ss.isFailed /\ ~ss.isSkipped
    \/ ~ss.isPassed /\ ss.isFailed /\ ~ss.isSkipped
    \/ ~ss.isPassed /\ ~ss.isFailed /\ ss.isSkipped

AsExpectedOf(ss, st) == IF ss.isPassed = ~st.isExpectedFail THEN "true" ELSE "false"

\* the executed steps that carry a result of their own run
Marked == { ref \in Executed : SS(Cur, ref).isPassed \/ SS(Cur, ref).isFailed }

\* C2 (as claimed): for every executed step that was marked, also when a
\* hook failed for it, asExpected = (isPassed == !isExpectedFail).
C2_AsExpectedAlways ==
    \A ref \in Marked : SS(Cur, ref).asExpected = AsExpectedOf(SS(Cur, ref), StepOf(Cur, ref))

\* C2 (amended): every executed step that was marked and for which no
\* beforeEveryStep/afterEveryStep hook failed has
\* asExpected = (isPassed == !isExpectedFail); a step failed by a hook has
\* asExpected = false whatever isExpectedFail is.
C2_AsExpected ==
    \A ref \in Marked :
        SS(Cur, ref).asExpected =
            IF SS(Cur, ref).hookFailed THEN "false"
            ELSE AsExpectedOf(SS(Cur, ref), StepOf(Cur, ref))

C2_Witness ==
    /\ ~isStopped
    /\ pc = "idle"
    /\ \E ref \in Executed :
          /\ StepOf(Cur, ref).isExpectedFail
          /\ SS(Cur, ref).isFailed
          /\ ~SS(Cur, ref).hookFailed
          /\ SS(Cur, ref).asExpected = "true"
    /\ \E ref \in Executed : SS(Cur, ref).hookFailed

\* C3: isPaused implies that the tree has exactly one branch.
C3_PauseOnlySingleBranch == isPaused => treeSize(Cur) = 1

\* C4: when stop() is called while a step's code block is being evaluated,
\* runStep returns with the step unmarked (neither isPassed nor isFailed).
C4_StopSuppressesMarking ==
    (/\ stopAt[1] = "codeBlock"
     /\ pc = "runStepReturned"
     /\ rsStep = stopAt[2]
     /\ Len(stepsRan) = stopAt[3])
        => (~SS(Cur, rsStep).isPassed /\ ~SS(Cur, rsStep).isFailed)

\* C5: once stop() has been called while run() is in progress, run() begins
\* no further step or hook.
C5_NothingBeginsAfterStop ==
    [][(isStopped /\ op = "run") => execLog' = execLog]_vars

Max0(n) == IF n < 0 THEN 0 ELSE n

IsCodeBlockFunc(st) == st.isFunctionCall /\ st.hasCodeBlock

\* the pairs k-1, k of stepsRan that are adjacent steps of one branch and
\* whose runStep has returned
AdjacentRan ==
    { k \in 2..Len(stepsRan) :
        /\ stepsRan[k][1] = stepsRan[k - 1][1]
        /\ stepsRan[k][2] = stepsRan[k - 1][2] + 1
        /\ ranInfo[k].depthAfter # -1 }

DepthAfter(entry, p, c) ==
    LET t == IF c.branchIndents > p.branchIndents
             THEN entry + (IF IsCodeBlockFunc(p) THEN 0 ELSE 1)
             ELSE IF c.branchIndents < p.branchIndents
             THEN Max0(entry - (p.branchIndents - c.branchIndents))
             ELSE IF IsCodeBlockFunc(p) THEN Max0(entry - 1) ELSE entry
    IN  t + (IF IsCodeBlockFunc(c) /\ c.par # "bad" THEN 1 ELSE 0)

C7_PopBalanced ==
    /\ local # UndefinedFrame
    /\ \A i \in 1..Len(localStack) : localStack[i] # UndefinedFrame

\* index of the first step after step i of branch b whose indent is not
\* deeper than step i's (0 if none)
ReturnIndex(b, i) ==
    LET later == { j \in (i + 1)..Len(branches[b].steps) :
                      branches[b].steps[j].branchIndents <= branches[b].steps[i].branchIndents }
    IN  IF later = {} THEN 0 ELSE CHOOSE j \in later : \A m \in later : j <= m

\* C8: when a function call step has finished and the branch reaches the
\* next step at the caller's indent (the steps in between having run one
\* after the other, the stack untouched between them), localStack depth and
\* `local` are what they were when the call step was entered.
C8_LexicalScope ==
    \A k1 \in 1..Len(stepsRan) : \A k2 \in (k1 + 1)..Len(stepsRan) :
        LET b == stepsRan[k1][1]
            i == stepsRan[k1][2]
            j == ReturnIndex(b, i)
        IN  (/\ StepOf(Cur, stepsRan[k1]).isFunctionCall
             /\ j # 0
             /\ branches[b].steps[j].branchIndents = branches[b].steps[i].branchIndents
             /\ k2 - k1 = j - i
             /\ \A m \in 0..(j - i) : stepsRan[k1 + m] = << b, i + m >>
             /\ \A m \in 0..(j - i) : ranInfo[k1 + m].bodyRan
             /\ \A m \in 1..(j - i) :
                    ranInfo[k1 + m].depthEntry = ranInfo[k1 + m - 1].depthAfter)
            => /\ ranInfo[k2].snapDepth = ranInfo[k1].snapDepth
               /\ ranInfo[k2].snapLocal = ranInfo[k1].snapLocal

\* C9: at the start of every branch run by run(), global is runner.globalInit,
\* local and localStack are empty, no local variable is readable, and the
\* persistent variables are the ones the previous branch left.
C9_BranchStartsClean ==
    branchStart.b # 0 =>
        /\ branchStart.global = globalInit
        /\ branchStart.local = EmptyFrame
        /\ branchStart.depth = 0
        /\ branchStart.readableLocal = EmptyFrame
        /\ branchStart.persistent = branchStart.persistentBefore

\* C10 (as claimed): stepsRan records every step and every hook step the
\* engine executes, in execution order.
C10_StepsRanRecordsHooksToo == stepsRan = execLog

IsStepEntry(e) == Len(e) = 2

\* C10 (amended): stepsRan records, in execution order, every step runStep
\* executes (normal steps, re-runs by runLastStep, injected steps); hook
\* steps are not recorded.
C10_StepsRanRecordsSteps == stepsRan = SelectSeq(execLog, IsStepEntry)

C10_Witness ==
    /\ pc = "idle"
    /\ \E k \in 1..Len(execLog) : ~IsStepEntry(execLog[k])
    /\ \E k1 \in 1..Len(stepsRan) : \E k2 \in (k1 + 1)..Len(stepsRan) :
          stepsRan[k1] = stepsRan[k2]
    /\ \E k \in 1..Len(stepsRan) : branches[stepsRan[k][1]].synthesized

\* the entries the operation in progress (or the last one finished) has
\* added to stepsRan
OpRan == SubSeq(stepsRan, opStart.len + 1, Len(stepsRan))

\* C11: within one run(), the steps of a branch are executed in increasing
\* index order with no step executed twice, all steps a branch executes come
\* before any step of the next branch, and branches are taken in the order
\* tree.nextBranch() returns them (the first branch not complete or running):
\* when a step of a branch runs, every earlier branch is complete or running;
\* in a run() started from scratch the steps of a branch run from the first
\* one on, without gaps.
C11_StepOrder ==
    opStart.name = "run" =>
        /\ \A k \in 1..(Len(OpRan) - 1) :
              \/ OpRan[k + 1][1] = OpRan[k][1] /\ OpRan[k + 1][2] > OpRan[k][2]
              \/ OpRan[k + 1][1] > OpRan[k][1]
        /\ \A k \in 1..Len(OpRan) : \A c \in 1..(OpRan[k][1] - 1) :
              isCompleteOrRunning(Cur, c)
        /\ ~opStart.paused =>
              \A k \in 1..Len(OpRan) :
                  IF k > 1 /\ OpRan[k - 1][1] = OpRan[k][1]
                  THEN OpRan[k][2] = OpRan[k - 1][2] + 1
                  ELSE OpRan[k][2] = 1

C11_Witness ==
    /\ opStart.name = "run"
    /\ ~opStart.paused
    /\ pc = "idle"
    /\ ~isPaused
    /\ ~isStopped
    /\ \E k \in 2..(Len(OpRan) - 1) :
          /\ OpRan[k - 1][1] = OpRan[k][1]
          /\ OpRan[k + 1][1] # OpRan[k][1]

IsStepHook(e) == Len(e) = 3 /\ e[3] \in {"beforeEveryStep", "afterEveryStep"}

IsAfterEveryStep(e) == Len(e) = 3 /\ e[3] = "afterEveryStep"

IsAfterEveryBranch(e) == Len(e) = 3 /\ e[3] = "afterEveryBranch"

\* the positions of execLog holding a step whose runStep has returned
ReturnedSteps ==
    { k \in 1..Len(execLog) :
        /\ IsStepEntry(execLog[k])
        /\ InRunStep => \E j \in (k + 1)..Len(execLog) : IsStepEntry(execLog[j]) }

\* the Before/After Every Step hooks logged right after position k
RECURSIVE StepHooksAfter(_)
StepHooksAfter(k) ==
    IF k + 1 <= Len(execLog) /\ IsStepHook(execLog[k + 1])
    THEN << execLog[k + 1] >> \o StepHooksAfter(k + 1)
    ELSE << >>

\* the After Every Branch hooks logged from position k on
RECURSIVE BranchHooksFrom(_)
BranchHooksFrom(k) ==
    IF k <= Len(execLog) /\ IsAfterEveryBranch(execLog[k])
    THEN << execLog[k] >> \o BranchHooksFrom(k + 1)
    ELSE << >>

\* the positions of execLog where a chain of After Every Branch hooks that
\* is no longer in progress begins
ReturnedBranchChains ==
    { k \in 1..Len(execLog) :
        /\ IsAfterEveryBranch(execLog[k])
        /\ k > 1 => ~IsAfterEveryBranch(execLog[k - 1]) \/ execLog[k][2] = 1
        /\ pc = "afterEveryBranch" =>
              \E j \in (k + 1)..Len(execLog) :
                  ~IsAfterEveryBranch(execLog[j]) \/ execLog[j][2] = 1 }

AllHooks(b, n, kind) == [i \in 1..n |-> << b, i, kind >>]

\* C12: unless the instance is stopped, all afterEveryStep hooks of the branch
\* have run, in declared order, after every step whose runStep returned
\* (whether the step or an earlier hook failed or not); every chain of
\* afterEveryBranch hooks that finished ran all hooks of the branch in declared
\* order; and every branch run() has left has had its afterEveryBranch hooks run.
C12_AfterHooksAllRun ==
    ~isStopped =>
        /\ \A k \in ReturnedSteps :
              SelectSeq(StepHooksAfter(k), IsAfterEveryStep) =
                  AllHooks(execLog[k][1], branches[execLog[k][1]].afterEveryStep,
                           "afterEveryStep")
        /\ \A k \in ReturnedBranchChains :
              LET b == execLog[k][1]
                  n == branches[b].afterEveryBranch
              IN  SubSeq(execLog, k, k + n - 1) = AllHooks(b, n, "afterEveryBranch")
        /\ \A b \in 1..Len(branches) :
              (/\ ~branches[b].synthesized
               /\ b # currBranch
               /\ (\E k \in 1..Len(execLog) : execLog[k][1] = b)
               /\ branches[b].afterEveryBranch > 0)
                  => \E k \in ReturnedBranchChains : execLog[k][1] = b

C12_Witness ==
    /\ ~isStopped
    /\ pc = "idle"
    /\ \E k \in ReturnedSteps :
          /\ branches[execLog[k][1]].afterEveryStep = 2
          /\ SS(Cur, execLog[k]).hookFailed
          /\ ~IsHookError(SS(Cur, execLog[k]).error)
    /\ \E k \in ReturnedBranchChains :
          /\ branches[execLog[k][1]].afterEveryBranch = 2
          /\ IsHookError(bstate[execLog[k][1]].error)

\* a Before Every Step hook of the step in progress fails in this transition
BeforeEveryStepHookFails ==
    /\ pc = "beforeEveryStep"
    /\ Len(ranInfo') = Len(ranInfo)
    /\ ranInfo[Len(ranInfo)].besFailed = 0
    /\ ranInfo'[Len(ranInfo)].besFailed # 0

\* what the failure of a Before Every Step hook does at once: the step is
\* failed, the variables are untouched, neither a further Before Every Step
\* hook nor the code block begins
FailedBeforeEveryStepSkipsBody ==
    /\ sstate'[rsStep[1]][rsStep[2]].isFailed
    /\ UNCHANGED << persistent, global, local, localStack, localsPassedIntoFunc >>
    /\ pc' \notin {"beforeEveryStep", "codeBlock"}
    /\ ranInfo'[Len(ranInfo)].besFailed = hookIdx

\* position in execLog of the latest step entry
LastStepPos ==
    CHOOSE k \in 1..Len(execLog) :
        IsStepEntry(execLog[k]) /\ \A j \in (k + 1)..Len(execLog) : ~IsStepEntry(execLog[j])

\* runStep has just returned from executing rsStep (not from the debug gate)
JustExecuted ==
    /\ pc = "runStepReturned"
    /\ ~(StepOf(Cur, rsStep).isBeforeDebug /\ ~rsOverride)

\* after a step for which the i-th Before Every Step hook failed: the body
\* did not run, the stack has its depth of before, i hooks ran before the step
\* and then all After Every Step hooks
BodySkippedHooksRan ==
    LET info == ranInfo[Len(ranInfo)]
        b == rsStep[1]
    IN  /\ ~info.bodyRan
        /\ info.depthAfter = info.depthEntry
        /\ StepHooksAfter(LastStepPos) =
               AllHooks(b, info.besFailed, "beforeEveryStep")
                   \o AllHooks(b, branches[b].afterEveryStep, "afterEveryStep")

\* C13 (as claimed): when the i-th beforeEveryStep hook fails for a step, the
\* step is marked failed, no later beforeEveryStep hook runs, the step body is
\* not executed at all, and the afterEveryStep hooks still run (in every case).
C13_FailedBeforeHookAsClaimed ==
    /\ [][BeforeEveryStepHookFails => FailedBeforeEveryStepSkipsBody]_vars
    /\ [](JustExecuted /\ ranInfo[Len(ranInfo)].besFailed # 0 => BodySkippedHooksRan)

\* C13 (amended): when the i-th beforeEveryStep hook fails for a step, the
\* step is marked failed, no later beforeEveryStep hook runs and the step body
\* is not executed at all; the afterEveryStep hooks still run unless stop()
\* was called, in which case runStep returns right after the hook in flight.
C13_FailedBeforeHook ==
    /\ [][BeforeEveryStepHookFails => FailedBeforeEveryStepSkipsBody]_vars
    /\ [](JustExecuted /\ ranInfo[Len(ranInfo)].besFailed # 0 =>
            /\ ~ranInfo[Len(ranInfo)].bodyRan
            /\ ranInfo[Len(ranInfo)].depthAfter = ranInfo[Len(ranInfo)].depthEntry
            /\ SelectSeq(StepHooksAfter(LastStepPos), LAMBDA e : e[3] = "beforeEveryStep")
                  = AllHooks(rsStep[1], ranInfo[Len(ranInfo)].besFailed, "beforeEveryStep")
            /\ ~isStopped => BodySkippedHooksRan)

C13_Witness ==
    /\ JustExecuted
    /\ ~isStopped
    /\ ranInfo[Len(ranInfo)].besFailed = 1
    /\ branches[rsStep[1]].beforeEveryStep = 2
    /\ branches[rsStep[1]].afterEveryStep > 0
    /\ IsCodeBlockFunc(StepOf(Cur, rsStep))
    /\ rsStep[2] > 1

\* what execLog holds for branch b
LogOf(b) == SelectSeq(execLog, LAMBDA e : e[1] = b)

\* a beforeEveryBranch hook failed for branch b and run() is past the hooks of b
LeftFailedBranch(b) ==
    /\ bstate[b].bebFailed # 0
    /\ currBranch # b \/ pc \notin {"beforeEveryBranch", "afterEveryBranch"}

\* the log of a branch failed by its i-th beforeEveryBranch hook, all of its
\* afterEveryBranch hooks having run
FailedBranchLog(b) ==
    AllHooks(b, bstate[b].bebFailed, "beforeEveryBranch")
        \o AllHooks(b, branches[b].afterEveryBranch, "afterEveryBranch")

\* run() goes from the failed branch to the branch tree.nextBranch() returns
ProceedsToNextBranch ==
    (/\ pc = "afterEveryBranchReturned"
     /\ pc' # pc
     /\ op = "run"
     /\ bstate[currBranch].bebFailed # 0)
        => /\ currBranch' = nextBranch(Cur)
           /\ currBranch' # currBranch
           /\ (currBranch' # 0 /\ ~isStopped) => op' = "run"

\* C14 (as claimed): when a beforeEveryBranch hook of a branch fails, the
\* branch is marked failed, none of its steps is executed, all of its
\* afterEveryBranch hooks are still run (in every case), and run() proceeds to
\* the next branch returned by tree.nextBranch().
C14_FailedBranchHookAsClaimed ==
    /\ [](\A b \in 1..Len(branches) :
            /\ bstate[b].bebFailed # 0 =>
                  bstate[b].isFailed /\ \A k \in 1..Len(stepsRan) : stepsRan[k][1] # b
            /\ LeftFailedBranch(b) => LogOf(b) = FailedBranchLog(b))
    /\ [][ProceedsToNextBranch]_vars

\* C14 (amended): when a beforeEveryBranch hook of a branch fails, the branch
\* is marked failed and none of its steps is executed; unless stop() was
\* called, all of its afterEveryBranch hooks are still run and run() proceeds
\* to the next branch returned by tree.nextBranch(); after a stop() run()
\* returns once the hook in flight has finished.
C14_FailedBranchHook ==
    /\ [](\A b \in 1..Len(branches) :
            /\ bstate[b].bebFailed # 0 =>
                  bstate[b].isFailed /\ \A k \in 1..Len(stepsRan) : stepsRan[k][1] # b
            /\ (LeftFailedBranch(b) /\ ~isStopped) => LogOf(b) = FailedBranchLog(b)
            /\ (LeftFailedBranch(b) /\ isStopped) =>
                  \E n \in 0..branches[b].afterEveryBranch :
                      LogOf(b) = AllHooks(b, bstate[b].bebFailed, "beforeEveryBranch")
                                    \o AllHooks(b, n, "afterEveryBranch"))
    /\ [][ProceedsToNextBranch]_vars

C14_Witness ==
    /\ pc = "idle"
    /\ ~isStopped
    /\ Len(branches) >= 2
    /\ bstate[1].bebFailed = 1
    /\ branches[1].afterEveryBranch > 0
    /\ LogOf(1) = FailedBranchLog(1)
    /\ \E k \in 1..Len(stepsRan) : stepsRan[k][1] = 2

\* C15: the finishBranchNow argument runStep passes to tree.markStep is true
\* exactly when the step's execution threw an error and neither error.continue
\* is truthy nor runner.pauseOnFail is set; in every other case it is false.
C15_FinishBranchNow ==
    \A k \in 1..Len(ranInfo) :
        ranInfo[k].finishArg # "none" =>
            ((ranInfo[k].finishArg = "true")
                <=> (ranInfo[k].threw = "throw" /\ ~pauseOnFail))

\* the step ended failed or not as expected
EndedBadly(ss) == ~ss.isPassed \/ ss.asExpected # "true"

\* run() has returned, not stopped, and the last step it executed ended
\* badly under pauseOnFail
RunEndedOnBadStep ==
    /\ pc = "idle"
    /\ ~isStopped
    /\ opStart.name = "run"
    /\ pauseOnFail
    /\ Len(stepsRan) > opStart.len
    /\ EndedBadly(SS(Cur, stepsRan[Len(stepsRan)]))

\* the instance is paused right after the step, the branch is not finished
\* and the next step of the branch is the one to execute next
PausedBeforeNextStep ==
    LET s == stepsRan[Len(stepsRan)]
    IN  /\ isPaused
        /\ currBranch = s[1]
        /\ ~isComplete(Cur, s[1])
        /\ \A j \in (s[2] + 1)..Len(branches[s[1]].steps) : ~stepIsComplete(Cur, << s[1], j >>)
        /\ getNextReadyStep(Cur) = << s[1], s[2] + 1 >>

\* runOneStep() was called right after a run() that ended on a step that
\* ended badly under pauseOnFail
RunOneStepAfterBadStep ==
    /\ opStart.name = "runOneStep"
    /\ ~opStart.stopped
    /\ opStart.prevName = "run"
    /\ pauseOnFail
    /\ opStart.len > opStart.prevLen
    /\ EndedBadly(opStart.sstate[stepsRan[opStart.len][1]][stepsRan[opStart.len][2]])

\* runOneStep() executes exactly the step after the one that ended badly and
\* leaves the instance paused
RunsExactlyNextStep ==
    LET s == stepsRan[opStart.len]
    IN  /\ Len(stepsRan) > opStart.len
        /\ stepsRan[opStart.len + 1] = << s[1], s[2] + 1 >>
        /\ pc = "idle" => /\ Len(stepsRan) = opStart.len + 1
                          /\ isPaused
                          /\ ret = "false"

\* runStep returns in this transition, from executing its step
StepEnds == pc' = "runStepReturned" /\ ranInfo' # ranInfo

\* a step executed by run() pauses the instance only if it ended badly under
\* pauseOnFail, or carries isAfterDebug (not overridden), or a pause was
\* requested while the step was in progress
PauseHasCause ==
    (/\ StepEnds
     /\ op' = "run"
     /\ isPaused'
     /\ ~(InRunStep /\ isPaused))
        => \/ pauseOnFail /\ EndedBadly(sstate'[rsStep'[1]][rsStep'[2]])
           \/ StepOf(Cur, rsStep').isAfterDebug /\ ~rsOverride'

\* C16 (as claimed): with pauseOnFail set and stop() not called, every step that ends failed or not
\* as expected leaves the instance paused right after it with the branch not
\* finished and no later step executed; a following runOneStep() executes
\* exactly the next step and leaves the instance paused again; a step that
\* passes as expected does not cause a pause.
C16_PauseOnFailAsClaimed ==
    /\ [](RunEndedOnBadStep => PausedBeforeNextStep)
    /\ [](RunOneStepAfterBadStep => RunsExactlyNextStep)
    /\ [][PauseHasCause]_vars

\* the step ended badly by its own execution (no hook failed for it) and is
\* not the last step of its branch
OwnFailureMidBranch(ss, s) == ~ss.hookFailed /\ s[2] < Len(branches[s[1]].steps)

\* C16 (amended): with pauseOnFail set and stop() not called, a step that ends
\* failed or not as expected leaves the instance paused right after it (after
\* its afterEveryStep hooks) and run() executes no later step.  If the step
\* ended so by its own execution and is not the last step of the branch, the
\* branch is not finished and a following runOneStep() executes exactly the
\* next step and leaves the instance paused again; if a beforeEveryStep or
\* afterEveryStep hook failed for the step, or the step is the last one, the
\* branch is finished at the pause.  A step that passes as expected does not
\* cause a pause.
C16_PauseOnFail ==
    /\ [](RunEndedOnBadStep =>
            LET s == stepsRan[Len(stepsRan)]
            IN  /\ isPaused
                /\ currBranch = s[1]
                /\ IF OwnFailureMidBranch(SS(Cur, s), s)
                   THEN PausedBeforeNextStep
                   ELSE isComplete(Cur, s[1]))
    /\ []((/\ RunOneStepAfterBadStep
           /\ OwnFailureMidBranch(
                 opStart.sstate[stepsRan[opStart.len][1]][stepsRan[opStart.len][2]],
                 stepsRan[opStart.len]))
            => RunsExactlyNextStep)
    /\ [][PauseHasCause]_vars

C16_Witness ==
    /\ RunOneStepAfterBadStep
    /\ ~isStopped
    /\ OwnFailureMidBranch(
          opStart.sstate[stepsRan[opStart.len][1]][stepsRan[opStart.len][2]],
          stepsRan[opStart.len])
    /\ pc = "idle"
    /\ isPaused
    /\ Len(stepsRan) = opStart.len + 1
    /\ SS(Cur, stepsRan[Len(stepsRan)]).isPassed

\* run() calls runStep in this transition and runStep returns at the
\* before-debug gate
GateTaken ==
    /\ pc = "runStepReturned"
    /\ op = "run"
    /\ pc' = "runStepReturned"
    /\ rsStep' # rsStep
    /\ StepOf(Cur, rsStep').isBeforeDebug
    /\ ~rsOverride'

\* the result fields of every step (the running mark is the cursor's, set by
\* tree.nextStep in the caller)
ResultFields(st) == [b \in DOMAIN st |-> [i \in DOMAIN st[b] |-> [st[b][i] EXCEPT !.isRunning = FALSE]]]

\* C17: runStep on a step with isBeforeDebug and overrideDebug not set changes
\* nothing except setting isPaused: the step is not appended to stepsRan, the
\* result fields and error of the steps and branches are untouched, no hook
\* runs, and persistent/global/local/localStack/localsPassedIntoFunc are
\* unchanged.
C17_BeforeDebugGateFrame ==
    [][GateTaken =>
         /\ isPaused'
         /\ UNCHANGED << stepsRan, ranInfo, execLog, bstate, isStopped, branches >>
         /\ UNCHANGED << persistent, global, local, localStack, localsPassedIntoFunc >>
         /\ ResultFields(sstate') = ResultFields(sstate)]_vars

C17_Witness ==
    /\ pc = "runStepReturned"
    /\ op = "run"
    /\ isPaused
    /\ ~isStopped
    /\ StepOf(Cur, rsStep).isBeforeDebug
    /\ ~rsOverride
    /\ branches[rsStep[1]].beforeEveryStep > 0
    /\ \A k \in 1..Len(stepsRan) : stepsRan[k] # rsStep
    /\ local.lv # Null

\* run() was called to resume
ResumedRun == opStart.name = "run" /\ opStart.paused /\ ~opStart.stopped

\* run() was called to resume right after a run() that paused at the
\* before-debug gate of the step the cursor is on
ResumedAtGate ==
    /\ ResumedRun
    /\ opStart.prevName = "run"
    /\ opStart.currStep # Null
    /\ ~opStart.complete
    /\ StepOf(Cur, opStart.currStep).isBeforeDebug
    /\ LET ss == opStart.sstate[opStart.currStep[1]][opStart.currStep[2]]
       IN  ~ss.isPassed /\ ~ss.isFailed /\ ~ss.isSkipped

\* the k-th step the operation added to stepsRan has returned from runStep
OpRanReturned(k) == k < Len(OpRan) \/ ~InRunStep

\* C18: when run() paused before a step with isBeforeDebug, the next run()
\* call executes that very step; overrideDebug applies to the first step of a
\* resuming run() only: no later step with isBeforeDebug is executed by it
\* (run() pauses before it), and a later step with isAfterDebug is the last
\* one it executes and leaves the instance paused.
C18_ResumeOneShot ==
    /\ ResumedAtGate =>
          /\ Len(OpRan) >= 1
          /\ OpRan[1] = opStart.currStep
    /\ ResumedRun =>
          \A k \in 2..Len(OpRan) :
              /\ ~StepOf(Cur, OpRan[k]).isBeforeDebug
              /\ (StepOf(Cur, OpRan[k]).isAfterDebug /\ OpRanReturned(k) /\ ~isStopped)
                    => k = Len(OpRan) /\ isPaused
    /\ (ResumedRun /\ pc = "runStepReturned" /\ ~JustExecuted) =>
          /\ isPaused
          /\ Len(OpRan) >= 1

C18_Witness ==
    /\ ResumedAtGate
    /\ pc = "idle"
    /\ ~isStopped
    /\ Len(OpRan) >= 1
    /\ stepIsComplete(Cur, OpRan[1])
    /\ opStart.len >= 1
    /\ branches[1].beforeEveryStep > 0

\* what the operation in progress (or the last one finished) has added to execLog
OpLog == SubSeq(execLog, opStart.logLen + 1, Len(execLog))

\* runOneStep(), called with a not-yet-complete step remaining, executes
\* exactly that step, leaves the instance paused and returns false
RunsOneStep ==
    LET s == opStart.next
        ss == opStart.sstate[s[1]][s[2]]
    IN  /\ s[1] = opStart.branch
        /\ ~ss.isPassed /\ ~ss.isFailed /\ ~ss.isSkipped
        /\ Len(OpRan) = 1
        /\ OpRan[1] = s
        /\ SelectSeq(OpLog, IsStepEntry) = << s >>
        /\ pc = "idle" => isPaused /\ ret = "false"

\* runOneStep(), called with no not-yet-complete step remaining, executes no
\* step, runs the afterEveryBranch hooks and returns true
RunsAfterEveryBranchOnly ==
    /\ OpRan = << >>
    /\ \E n \in 0..branches[opStart.branch].afterEveryBranch :
          OpLog = AllHooks(opStart.branch, n, "afterEveryBranch")
    /\ pc = "idle" =>
          /\ ret = "true"
          /\ ~isStopped =>
                OpLog = AllHooks(opStart.branch, branches[opStart.branch].afterEveryBranch,
                                 "afterEveryBranch")

SkipsOneStep ==
    LET s == opStart.next
        before == opStart.sstate[s[1]][s[2]]
    IN  /\ s[1] = opStart.branch
        /\ ~before.isPassed /\ ~before.isFailed /\ ~before.isSkipped
        /\ ResultFields(sstate) =
              [ResultFields(opStart.sstate) EXCEPT ![s[1]][s[2]].isSkipped = TRUE]
        /\ OpRan = << >>
        /\ OpLog = << >>
        /\ << persistent, global, local, localStack, localsPassedIntoFunc >> = opStart.variables
        /\ currStep = IF s[2] < Len(branches[s[1]].steps) THEN << s[1], s[2] + 1 >> ELSE Null
        /\ pc = "idle"
        /\ isPaused
        /\ ret = "false"

\* runOneStep() called right after a skipOneStep() that skipped a step
\* executes the step after the skipped one
RunsStepAfterSkipped ==
    (/\ opStart.name = "runOneStep"
     /\ opStart.prevName = "skipOneStep"
     /\ opStart.prevRet = "false"
     /\ opStart.next # Null)
        => /\ opStart.next[2] >= 2
           /\ opStart.sstate[opStart.next[1]][opStart.next[2] - 1].isSkipped
           /\ Len(OpRan) = 1
           /\ OpRan[1] = opStart.next

StepBeforeCursor ==
    LET b == opStart.branch
        n == Len(branches[b].steps)
        open == { i \in 1..n : LET ss == opStart.sstate[b][i]
                               IN  ~ss.isPassed /\ ~ss.isFailed /\ ~ss.isSkipped }
        first == CHOOSE i \in open : \A j \in open : i <= j
    IN  IF opStart.complete \/ open = {} THEN << b, n >>
        ELSE IF first = 1 THEN Null
        ELSE << b, first - 1 >>

InjectedBranch == Len(branches)

\* C22: injectStep(step) on a paused instance executes the steps of the
\* synthesized branch in order, debug markers ignored, stops after the first
\* one that fails, always ends with the instance paused, returns the
\* synthesized branch, appends each executed injected step to stepsRan, and
\* leaves the cursor (currBranch, currStep) and the results of the original
\* branch's steps unchanged.
C22_InjectStep ==
    (opStart.name = "injectStep" /\ opStart.paused) =>
        /\ branches[InjectedBranch].synthesized
        /\ Len(OpRan) >= 1
        /\ \A k \in 1..Len(OpRan) : OpRan[k] = << InjectedBranch, k >>
        /\ SelectSeq(OpLog, IsStepEntry) = OpRan
        /\ \A k \in 1..(Len(OpRan) - 1) : ~SS(Cur, OpRan[k]).isFailed
        /\ pc = "idle" =>
              /\ isPaused
              /\ ret = "branch"
              /\ \/ SS(Cur, OpRan[Len(OpRan)]).isFailed
                 \/ Len(OpRan) = Len(branches[InjectedBranch].steps)
        /\ currBranch = opStart.branch
        /\ currStep = opStart.currStep
        /\ \A b \in DOMAIN opStart.sstate :
              ResultFields(sstate)[b] = ResultFields(opStart.sstate)[b]

C22_Witness ==
    /\ opStart.name = "injectStep"
    /\ opStart.paused
    /\ pc = "idle"
    /\ Len(OpRan) = 1
    /\ SS(Cur, OpRan[1]).isFailed
    /\ Len(branches[InjectedBranch].steps) = 2
    /\ currStep # Null
    /\ isPaused
    /\ ret = "branch"

\* the value the variable findVarValue was asked for has in its namespace
AssignedValue ==
    IF vres.isLocal THEN getLocalVar(vq.env, vres.varname)
    ELSE getGlobalVar(vq.env, vres.varname)

\* C23: findVarValue returns the currently assigned value whenever the
\* variable is already assigned in the relevant namespace (local, including
\* localsPassedIntoFunc, or global), for every scalar value including the
\* empty string, 0 and false, without scanning later steps and without
\* raising VarNotSet.
C23_AssignedValueReturned ==
    (vres.pc = "found" /\ isScalar(AssignedValue)) =>
        vres.out = Returned(AssignedValue, 0)

\* findVarValue was called for a variable that is not assigned in its namespace
ReadUnassigned == vres.pc = "found" /\ AssignedValue = Undefined

\* step i of the scanned branch sets the variable findVarValue was asked
\* for: same canonical name, same isLocal flag
SetsAskedVar(i) ==
    \E j \in DOMAIN vq.branch[i].varsBeingSet :
        /\ canonicalize(vq.branch[i].varsBeingSet[j].name) = canonicalize(vres.varname)
        /\ vq.branch[i].varsBeingSet[j].isLocal = vres.isLocal

\* the first step, from the reading step on, that sets the variable (0: none)
FirstSetter ==
    LET later == { i \in vq.at..Len(vq.branch) : SetsAskedVar(i) }
    IN  IF later = {} THEN 0 ELSE CHOOSE i \in later : \A k \in later : i <= k

\* the first step, from the reading step on, with fewer branchIndents than
\* the reading step (Len + 1: none)
ScopeExit ==
    LET outer == { i \in vq.at..Len(vq.branch) :
                      vq.branch[i].branchIndents < vq.branch[vq.at].branchIndents }
    IN  IF outer = {} THEN Len(vq.branch) + 1 ELSE CHOOSE i \in outer : \A k \in outer : i <= k

\* the first setter is one the lookup may use
FirstSetterInScope == FirstSetter # 0 /\ (vres.isLocal => FirstSetter < ScopeExit)

\* the value the step sets the variable to, when it needs no further
\* resolution: a literal without variable references, or what the code
\* block returns when that is a number, a boolean or an object
PlainValueOf(i) ==
    LET e == CHOOSE j \in DOMAIN vq.branch[i].varsBeingSet :
                /\ canonicalize(vq.branch[i].varsBeingSet[j].name) = canonicalize(vres.varname)
                /\ vq.branch[i].varsBeingSet[j].isLocal = vres.isLocal
        content == vq.branch[i].varsBeingSet[e].value.content
    IN  IF vq.branch[i].hasCodeBlock THEN vq.branch[i].ret
        ELSE Str([k \in 1..Len(content) |->
                     IF content[k][1] = "esc" THEN Lit("\n") ELSE content[k]])

HasPlainValue(i) ==
    IF vq.branch[i].hasCodeBlock THEN vq.branch[i].ret.type # "string"
    ELSE \A j \in DOMAIN vq.branch[i].varsBeingSet :
            \A k \in DOMAIN vq.branch[i].varsBeingSet[j].value.content :
                ~IsRef(vq.branch[i].varsBeingSet[j].value.content[k])

\* C24: forward lookup: when a variable read at a step is not yet assigned,
\* findVarValue takes its value from the first later step of the branch (in
\* branch order, starting at the reading step) whose varsBeingSet has an entry
\* with the same canonical name and the same isLocal flag, so an earlier step
\* can read what a later step sets; a setter with the same name but the
\* other namespace is never used.
C24_ForwardLookup ==
    ReadUnassigned =>
        /\ vres.out.setter # 0 => SetsAskedVar(vres.out.setter)
        /\ FirstSetterInScope =>
              /\ vres.out.setter = FirstSetter
              /\ HasPlainValue(FirstSetter) =>
                    vres.out = Returned(PlainValueOf(FirstSetter), FirstSetter)

\* C25: a forward lookup of a local variable never crosses a scope exit: a
\* setter located at or after the first step whose branchIndents is strictly
\* less than the reading step's is never used, and when no setter is found
\* within scope (for a global: anywhere from the reading step on) the lookup
\* fails with the VarNotSet error instead of returning a value.
C25_LocalScopeBound ==
    ReadUnassigned =>
        /\ (vres.isLocal /\ vres.out.setter # 0) => vres.out.setter < ScopeExit
        /\ ~FirstSetterInScope => vres.out = Thrown("VarNotSet", 0)

C25_Witness ==
    /\ ReadUnassigned
    /\ vres.isLocal
    /\ FirstSetter # 0
    /\ FirstSetter = ScopeExit
    /\ \E i \in (ScopeExit + 1)..Len(vq.branch) :
          /\ SetsAskedVar(i)
          /\ vq.branch[i].branchIndents = vq.branch[vq.at].branchIndents
    /\ vres.out.err = "VarNotSet"

HoldsReference(v) == v.type = "string" /\ \E k \in DOMAIN v.text : IsRef(v.text[k])

EnvHoldsReference ==
    \E n \in CanonNames :
        \/ HoldsReference(vq.env.global[n])
        \/ HoldsReference(vq.env.local[n])
        \/ HoldsReference(vq.env.localsPassedIntoFunc[n])

SetterInScope(ref) ==
    LET sets(i) == \E j \in DOMAIN vq.branch[i].varsBeingSet :
                      /\ canonicalize(vq.branch[i].varsBeingSet[j].name) = canonicalize(ref[2])
                      /\ vq.branch[i].varsBeingSet[j].isLocal = ref[3]
        later == { i \in vq.at..Len(vq.branch) : sets(i) /\ (ref[3] => i < ScopeExit) }
    IN  IF later = {} THEN 0 ELSE CHOOSE i \in later : \A k \in later : i <= k

\* the text that step i gives the variable ref refers to (empty when its
\* code block returns something else than a string)
DefinitionOf(ref, i) ==
    LET e == CHOOSE j \in DOMAIN vq.branch[i].varsBeingSet :
                /\ canonicalize(vq.branch[i].varsBeingSet[j].name) = canonicalize(ref[2])
                /\ vq.branch[i].varsBeingSet[j].isLocal = ref[3]
    IN  IF vq.branch[i].hasCodeBlock
        THEN (IF vq.branch[i].ret.type = "string" THEN vq.branch[i].ret.text ELSE << >>)
        ELSE vq.branch[i].varsBeingSet[e].value.content

\* the variable has no usable value in the variable maps and is defined, by
\* forward lookup, in terms of another variable
RefersOn(ref) ==
    /\ ~truthy(IF ref[3] THEN getLocalVar(vq.env, ref[2]) ELSE getGlobalVar(vq.env, ref[2]))
    /\ SetterInScope(ref) # 0
    /\ SelectSeq(DefinitionOf(ref, SetterInScope(ref)), IsRef) # << >>

\* following the definitions from ref for n steps never reaches a value
RECURSIVE RefersOnFor(_, _)
RefersOnFor(ref, n) ==
    IF n = 0 THEN TRUE
    ELSE /\ RefersOn(ref)
         /\ RefersOnFor(SelectSeq(DefinitionOf(ref, SetterInScope(ref)), IsRef)[1], n - 1)

\* more steps than there are variables: the definitions are cyclic
CyclicFrom(ref) == RefersOnFor(ref, 2 * Cardinality(CanonNames) + 1)

\* C27: when variable definitions reachable by forward lookup refer to each
\* other cyclically, replaceVars terminates and fails with the
\* InfiniteVarLoop error; it neither returns a value nor surfaces the raw
\* call-stack overflow.
C27_CycleIsInfiniteVarLoop ==
    vres.pc \in {"replaced", "replacedAgain"} =>
        /\ vres.out.err # "RangeError"
        /\ (/\ vres.pc = "replaced"
            /\ SelectSeq(vres.text, IsRef) # << >>
            /\ CyclicFrom(SelectSeq(vres.text, IsRef)[1]))
              => vres.out.err = "InfiniteVarLoop"

C27_Witness ==
    /\ vres.pc = "replaced"
    /\ vres.text = << Ref("a", TRUE), Lit("-"), Ref("b", FALSE) >>
    /\ CyclicFrom(Ref("a", TRUE))
    /\ vres.out.err = "InfiniteVarLoop"

\* ------------------------------------------------------------------------
\* run() on its own: no stop(), no pause from outside, no debugger
\* operation; every code block and hook terminates and every await resumes
\* ------------------------------------------------------------------------
RunNext ==
    \/ Run
    \/ BeforeEveryBranchDone
    \/ AfterEveryBranchDone
    \/ AfterEveryBranchReturned
    \/ BeforeEveryStepHookDone
    \/ CodeBlockFinished
    \/ AfterEveryStepHookDone
    \/ RunStepReturned

\* the places where an operation is suspended in an await
AwaitPoints ==
    {"beforeEveryBranch", "beforeEveryStep", "codeBlock", "afterEveryStep",
     "afterEveryBranch", "runStepReturned", "afterEveryBranchReturned"}

\* where the suspended operation is: the await, the hook awaited, the
\* branch and the step
position == << pc, hookIdx, currBranch, currStep >>

\* the awaited hook, code block or callee settles and the operation goes on
\* to wherever its code takes it: another await of the same or of another
\* branch, or its return
Resumed ==
    /\ pc \in AwaitPoints
    /\ pc' \in AwaitPoints \cup {"idle"}
    /\ \E b \in 1..Len(branches) :
          /\ currBranch' \in {0, b}
          /\ currStep' \in {Null} \cup { << b, i >> : i \in 1..Len(branches[b].steps) }
          /\ hookIdx' \in 0..(branches[b].beforeEveryBranch + branches[b].afterEveryBranch
                                + branches[b].beforeEveryStep + branches[b].afterEveryStep)

\* every step run() takes from an await is a Resumed step that changes
\* position; each action of RunNext that starts at an await is enabled there
\* (its only guard is the value of pc), so that weak fairness on Resumed is
\* weak fairness on the continuations of run()
ResumeMoves == [][(pc \in AwaitPoints) => (Resumed /\ position' # position)]_vars

RunSpec ==
    /\ Init
    /\ [][RunNext]_vars
    /\ WF_position(Resumed)

\* positions in execLog of the steps of branch b and of its i-th
\* afterEveryBranch hook
StepPositions(b) == { k \in 1..Len(execLog) : IsStepEntry(execLog[k]) /\ execLog[k][1] = b }
AfterBranchPositions(b, i) ==
    { k \in 1..Len(execLog) : execLog[k] = << b, i, "afterEveryBranch" >> }

\* the steps of branch b that runStep() was called on
ExecutedSteps(b) ==
    { i \in 1..Len(branches[b].steps) : \E k \in 1..Len(stepsRan) : stepsRan[k] = << b, i >> }

\* each afterEveryBranch hook of branch b ran once, after the steps
AfterEveryBranchRan(b) ==
    \A i \in 1..branches[b].afterEveryBranch :
        /\ Cardinality(AfterBranchPositions(b, i)) = 1
        /\ \A k \in AfterBranchPositions(b, i) : \A s \in StepPositions(b) : s < k

\* the tree handed branch b out to the instance
HandedOut(b) == \E k \in 1..Len(execLog) : execLog[k][1] = b

\* the first run() on the instance has returned, not paused and not stopped
FirstRunReturned ==
    /\ opsStarted = 1
    /\ opStart.name = "run"
    /\ op = "idle"
    /\ ~isPaused
    /\ ~isStopped

CarriedThrough(b) ==
    LET n == Len(branches[b].steps)
    IN  /\ isComplete(Cur, b)
        /\ \E m \in 0..n :
              /\ ExecutedSteps(b) = 1..m
              /\ \/ m = n
                 \/ m = 0 /\ bstate[b].bebFailed > 0
                 \/ m > 0 /\ sstate[b][m].isFailed
        /\ \A i \in ExecutedSteps(b) : stepIsComplete(Cur, << b, i >>)
        /\ AfterEveryBranchRan(b)

StopCalled == stopAt[1] # "none"

\* the latest operation called is a run() called on a stopped instance
RunCalledWhenStopped == opStart.name = "run" /\ opStart.stopped

\* C29: stop is terminal: after stop() has been called, isStopped stays true
\* in every later state (no operation clears it), and every later call of
\* run() is rejected with an error before any branch is fetched or any step
\* or hook is executed.
C29_StopIsTerminal ==
    /\ [](StopCalled => isStopped)
    /\ [][isStopped => isStopped']_vars
    /\ [](RunCalledWhenStopped =>
            /\ StopCalled
            /\ op = "idle"
            /\ ret = "error"
            /\ currBranch = opStart.branch
            /\ currStep = opStart.currStep
            /\ Len(execLog) = opStart.logLen
            /\ Len(stepsRan) = opStart.len
            /\ sstate = opStart.sstate
            /\ << persistent, global, local, localStack, localsPassedIntoFunc >>
                   = opStart.variables)

C29_Witness ==
    /\ RunCalledWhenStopped
    /\ opStart.paused
    /\ opStart.branch # 0
    /\ opStart.next # Null
    /\ ret = "error"

\* ------------------------------------------------------------------------
\* C30
\* ------------------------------------------------------------------------
\* a beforeEveryStep or afterEveryStep hook is awaited for rsStep
StepHookAwaited == pc \in {"beforeEveryStep", "afterEveryStep"}

\* a beforeEveryBranch or afterEveryBranch hook of branch b fails in this
\* transition
BranchHookFails(b) ==
    \/ bstate'[b].bebFailed # bstate[b].bebFailed
    \/ bstate'[b].aebFailed # bstate[b].aebFailed

\* a beforeEveryStep or afterEveryStep hook fails in this transition for
\* step i of branch b, the first one to fail since the step was entered
StepHookFails(b, i) == ~sstate[b][i].hookFailed /\ sstate'[b][i].hookFailed

\* C30: first error wins: once a branch's error has been set during a run,
\* later failing hooks of that branch never replace it, and a failing
\* beforeEveryStep/afterEveryStep hook never replaces an error already
\* recorded on the step it runs for, although the branch/step is still
\* marked failed.
C30_FirstErrorWins ==
    /\ [][\A b \in 1..Len(branches) :
             bstate[b].error # NoError => bstate'[b].error = bstate[b].error]_vars
    /\ [][(StepHookAwaited /\ SS(Cur, rsStep).error # NoError)
             => sstate'[rsStep[1]][rsStep[2]].error = SS(Cur, rsStep).error]_vars
    /\ [][\A b \in 1..Len(branches) :
             /\ BranchHookFails(b) =>
                   /\ IsHookError(bstate'[b].error)
                   /\ bstate'[b].isFailed
                   /\ ~bstate'[b].isPassed
             /\ \A i \in 1..Len(branches[b].steps) :
                   StepHookFails(b, i) =>
                      /\ sstate'[b][i].error # NoError
                      /\ sstate'[b][i].isFailed
                      /\ ~sstate'[b][i].isPassed
                      /\ bstate'[b].isFailed
                      /\ ~bstate'[b].isPassed]_vars

\* a branch whose two afterEveryBranch hooks both failed, with a step whose
\* code block threw before one of its afterEveryStep hooks failed
C30_Witness ==
    /\ Len(branches) = 2
    /\ bstate[1].aebFailed = 2
    /\ bstate[1].error = "HookError:afterEveryBranch:1"
    /\ \E i \in 1..Len(branches[1].steps) :
          /\ sstate[1][i].hookFailed
          /\ sstate[1][i].error = "CodeBlockError"
    /\ pc = "idle"

\* ------------------------------------------------------------------------
\* C31
\* ------------------------------------------------------------------------
\* C31: when an error thrown by a step's code block or by a hook already
\* carries a filename and lineNumber set by user code, the engine keeps
\* those values: after error filling, error.filename and error.lineNumber
\* are the pre-set ones, not the step's or the function declaration's.
C31_PresetLocationKept ==
    (/\ vres.pc = "filled"
     /\ vq.inCodeBlock
     /\ vq.error.filename # "unset"
     /\ vq.error.lineNumber # 0)
        => /\ vres.error.filename = vq.error.filename
           /\ vres.error.lineNumber = vq.error.lineNumber

\* ------------------------------------------------------------------------
\* C36
\* ------------------------------------------------------------------------
\* the error was thrown inside a code block and its stack has several frames
\* matching `at CodeBlock...<anonymous>:<N>`
SeveralCodeBlockFrames == vq.inCodeBlock /\ Len(matches(vq.error.stack)) >= 2

\* a function-call step (not a hook, not packaged) failing inside its code
\* block
FunctionCallFailedInCodeBlock ==
    /\ vq.inCodeBlock
    /\ vq.step.isFunctionCall
    /\ ~vq.step.isHook
    /\ ~vq.step.isPackaged

\* C36: when an error thrown inside a code block has a stack with several
\* frames matching `at CodeBlock...<anonymous>:<N>`, the engine sets
\* error.lineNumber to the N of the last such frame; and for a function-call
\* step (not a hook, not packaged) failing inside its code block,
\* error.filename is the function declaration's filename rather than the
\* call site's.
C36_LineOfLastFrame ==
    vres.pc = "filled" =>
        /\ SeveralCodeBlockFrames =>
              vres.error.lineNumber =
                  matches(vq.error.stack)[Len(matches(vq.error.stack))].line
        /\ FunctionCallFailedInCodeBlock =>
              vres.error.filename = vq.step.declFilename

\* C36 (amended): when an error thrown inside a code block of a step that is
\* not packaged has a stack with several frames matching
\* `at CodeBlock...<anonymous>:<N>`, the engine sets error.lineNumber to the
\* N of the first such frame (the innermost one); and for a function-call
\* step (not a hook, not packaged) failing inside its code block,
\* error.filename is the function declaration's filename rather than the
\* call site's.
C36_LineOfFirstFrame ==
    vres.pc = "filled" =>
        /\ (SeveralCodeBlockFrames /\ ~vq.step.isPackaged) =>
              vres.error.lineNumber = matches(vq.error.stack)[1].line
        /\ FunctionCallFailedInCodeBlock =>
              vres.error.filename = vq.step.declFilename

C36_Witness ==
    /\ vres.pc = "filled"
    /\ FunctionCallFailedInCodeBlock
    /\ vq.error.stack = << Frame(FALSE, 50), Frame(TRUE, 7), Frame(TRUE, 3) >>
    /\ vres.error.lineNumber = 7
    /\ vres.error.filename = "decl.smash"

\* ------------------------------------------------------------------------
\* C33
\* ------------------------------------------------------------------------
\* what the latest setter calls make a getter of namespace ns return for
\* varname: for local, the staged binding when there is one
LatestSet(ns, varname) ==
    LET k == canonicalizeName(varname)
    IN  IF ns = "local" /\ vq.last["localsPassedIntoFunc"][k] # Undefined
        THEN vq.last["localsPassedIntoFunc"][k]
        ELSE vq.last[ns][k]

\* C33: variable lookup is case- and whitespace-insensitive and
\* namespace-separated: after set(ns, n1, v), get(ns, n2) returns v for every
\* n2 whose canonical form (trimmed, whitespace-collapsed, case-folded)
\* equals that of n1, until a later set under an equal canonical name; a set
\* in one namespace never changes what get returns in another; and getLocal
\* returns the value staged in localsPassedIntoFunc in preference to the
\* value in `local` when both exist.
C33_CanonicalLookup ==
    \A ns \in Namespaces, n2 \in StoreNames : get(vq.st, ns, n2) = LatestSet(ns, n2)

C33_Witness ==
    /\ vres.call = "get"
    /\ vres.ns = "local"
    /\ vres.varname = << "A", " ", "B", " " >>
    /\ vq.last["local"][<< "a", " ", "b" >>] = Str(<< Lit("1") >>)
    /\ vq.last["localsPassedIntoFunc"][<< "a", " ", "b" >>] = Str(<< Lit("2") >>)
    /\ vq.last["global"][<< "a", " ", "b" >>] = Str(<< Lit("1") >>)
    /\ vq.st.local[<< "a", " ", "b" >>] = Str(<< Lit("1") >>)
    /\ vres.out = Str(<< Lit("2") >>)
    /\ getGlobalNamed(vq.st, << " ", "A", "\t", " ", "b" >>) = Str(<< Lit("1") >>)
    /\ getPersistentNamed(vq.st, << "a", " ", "b" >>) = Undefined
    /\ getGlobalNamed(vq.st, << "a", "b" >>) = Undefined

\* ------------------------------------------------------------------------
\* C32
\* ------------------------------------------------------------------------
\* C32: imp loads a package at most once per variable name: if persistent
\* already holds a value under the (given or derived camel-cased) name, imp
\* returns that value without calling the loader; otherwise it loads, stores
\* the result in persistent and returns it.  Because persistent is shared by
\* reference, this also holds across several RunInstances of the same Runner
\* whose code blocks interleave at suspension points: the loader is called
\* once and all instances get the same value.
C32_LoadedOnce ==
    /\ \A k \in ImpKeys : vq.loads[k] <= 1
    /\ vres.instance # 0 =>
          /\ vres.held # Undefined =>
                /\ ~vres.loaderCalled
                /\ vres.out = vres.held
          /\ vres.held = Undefined =>
                /\ vres.loaderCalled
                /\ vres.out = require(vres.packageName)
                /\ property(vq.persistent,
                            canonicalizeName(impVarName(vres.packageName, vres.varName)))
                      = vres.out

\* ------------------------------------------------------------------------
\* C34: localsPassedIntoFunc at the step boundary
\* ------------------------------------------------------------------------
\* the step runStep is executing neither is a function call nor follows one
\* in its branch: nothing the step's branch did staged a binding for it
UnrelatedStepEntered ==
    /\ pc \in {"codeBlock", "afterEveryStep"}
    /\ ~StepOf(Cur, rsStep).isFunctionCall
    /\ \A i \in 1..(rsStep[2] - 1) : ~StepOf(Cur, << rsStep[1], i >>).isFunctionCall

\* C34: once runStep is past the step boundary (lines 166-198) of a step that
\* is not a function call, localsPassedIntoFunc is empty: no binding staged by
\* an earlier function call is still staged while a later, unrelated step runs.
C34_StagedOnlyForFunctionCall ==
    UnrelatedStepEntered => localsPassedIntoFunc = EmptyFrame

\* ------------------------------------------------------------------------
\* Branch.isComplete, Branch.markBranch and Branch.finishOffBranch on one
\* Branch object
\* ------------------------------------------------------------------------
MaxMarks == 3
BranchLen == 2

\* A Branch as the constructor leaves it (part_000 lines 27-30), or as the
\* code outside RunInstance hands it over: kept from the previous run
\* (passedLastTime) or skipped.
ArrivingBranches ==
    { [FreshBranch EXCEPT !.isRunning = running] : running \in BOOLEAN }
    \cup { [FreshBranch EXCEPT !.passedLastTime = TRUE] }
    \cup { [FreshBranch EXCEPT !.isSkipped = TRUE] }

BranchInit ==
    /\ Untouched
    /\ \E br \in ArrivingBranches,
          asExp \in [1..BranchLen -> {"undefined", "true", "false"}] :
          vq = [bstate |-> << br >>,
                sstate |-> << [i \in 1..BranchLen |->
                                 [FreshStep EXCEPT !.asExpected = asExp[i]]] >>,
                branches |-> << [steps |-> [i \in 1..BranchLen |-> Null]] >>]
    /\ vres = 0

\* branch.markBranch(isPassed, error) is called
MarkBranch ==
    /\ vres < MaxMarks
    /\ \E passed \in BOOLEAN, error \in {NoError, "CodeBlockError"} :
          vq' = markBranch(vq, 1, passed, error)
    /\ vres' = vres + 1
    /\ UNCHANGED engineVars

\* branch.finishOffBranch() is called
FinishOffBranch ==
    /\ vres < MaxMarks
    /\ vq' = finishOffBranch(vq, 1)
    /\ vres' = vres + 1
    /\ UNCHANGED engineVars

BranchNext == MarkBranch \/ FinishOffBranch

BranchSpec == BranchInit /\ [][BranchNext]_vars

FlagsSet(b) ==
    Cardinality({f \in {"isPassed", "isFailed", "isSkipped", "passedLastTime"} : b[f]})

ResumedRunAtNextStep ==
    /\ op = "run"
    /\ opStart.paused
    /\ opStart.branch # 0
    /\ ~opStart.complete
    /\ opStart.next # Null
    /\ Len(stepsRan) = opStart.len + 1
    /\ pc = "beforeEveryStep"
    /\ hookIdx = 1

\* C37: when run() resumes an instance paused in the middle of a branch, the
\* global variables, local variables and localStack frames the steps before
\* the pause established are in place when the next step executes.
C37_ResumeKeepsVariables ==
    ResumedRunAtNextStep =>
        /\ global = opStart.variables[2]
        /\ local = opStart.variables[3]
        /\ localStack = opStart.variables[4]

\* ------------------------------------------------------------------------
\* C38: Before Every Branch hooks
\* ------------------------------------------------------------------------
\* the positions of execLog where the k-th Before Every Branch hook of
\* branch b began
BeforeEveryBranchRuns(b, k) ==
    { p \in 1..Len(execLog) : execLog[p] = << b, k, "beforeEveryBranch" >> }

\* the positions of execLog where a step of branch b began
StepRuns(b) ==
    { p \in 1..Len(execLog) : IsStepEntry(execLog[p]) /\ execLog[p][1] = b }

\* C38: for every branch of the tree of which a step has been executed, each
\* of its Before Every Branch hooks has been executed exactly once and before
\* the first of its steps, also when run() was resumed after a pause.
C38_BeforeEveryBranchOnce ==
    \A b \in 1..Len(branches) :
        (~branches[b].synthesized /\ StepRuns(b) # {}) =>
            \A k \in 1..branches[b].beforeEveryBranch :
                /\ Cardinality(BeforeEveryBranchRuns(b, k)) = 1
                /\ \A p \in BeforeEveryBranchRuns(b, k), q \in StepRuns(b) : p < q

\* ------------------------------------------------------------------------
\* C39: After Every Branch hooks
\* ------------------------------------------------------------------------
\* the positions of execLog where the k-th After Every Branch hook of
\* branch b began
AfterEveryBranchRuns(b, k) ==
    { p \in 1..Len(execLog) : execLog[p] = << b, k, "afterEveryBranch" >> }

\* C39: over any sequence of run(), runOneStep() and skipOneStep(), each
\* After Every Branch hook of a branch is executed at most once.
C39_AfterEveryBranchAtMostOnce ==
    \A b \in 1..Len(branches) :
        \A k \in 1..branches[b].afterEveryBranch :
            Cardinality(AfterEveryBranchRuns(b, k)) <= 1

====
